---- MODULE Spec2Model ----
(***************************************************************************)
(* The asynchronous e-paper rendering pipeline of drivers/epaper/display.cpp *)
(* : a FreeRTOS queue of job pointers (capacity 5), the single worker task  *)
(* epd_worker_task that drains it, and the foreground API (the Arduino      *)
(* loop: HTTP handlers, button callbacks, UI polling) that only enqueues    *)
(* and polls epd_isBusy().                                                  *)
(*                                                                         *)
(* The foreground is one execution context (a synchronous WebServer served  *)
(* from loop()), the worker is a second one; the scheduler may interleave   *)
(* them between any two statements that touch shared state.                 *)
(***************************************************************************)
EXTENDS Integers, Sequences, FiniteSets, TLC

\* ---------------------------------------------------------------- bounds
\* Jobs created (new epd_job_t) in one run.
MaxJobs == 6
\* Of these, the jobs that are not plain epd_clear() requests ...
MaxRenderJobs == 1
\* ... except that the first MaxBurst jobs of a run may be of any kind.
MaxBurst == 2
\* Components of the longest page a producer passes to epd_displayPage.
MaxComponents == 28

\* Largest index (beyond the special values) passed to text_app_get_text
\* and to POST /apps/text/select.
MaxIndex == 7

\* Milliseconds of button polling that are explored, and buttons that are
\* operated in one run.
MaxMillis == 1500
MaxOperated == 1

\* Milliseconds of polling at intervals within the debounce period.
MaxBounceMillis == 300

\* ------------------------------------------------------ program constants
\* xQueueCreate(5, sizeof(epd_job_t *))
QueueCapacity == 5
\* const int cycles = 4 in _exec_clear(true)
ForceClearCycles == 4

ENABLE_PARTIAL_UPDATE == FALSE

JobTypes == {"JOB_TEXT", "JOB_IMAGE", "JOB_CLEAR", "JOB_FORCE_CLEAR",
             "JOB_DATE", "JOB_HEADER", "JOB_PAGE"}

\* Texts a producer passes to epd_displayText / epd_displayHeader.
Texts == {"", "Hello"}
\* The DD.MM string epd_displayWallpaper formats for its overlay.
DateText == "06.11"

\* --------------------------------------------------------------- panel
\* display.width() / display.height() of the GxEPD2_290_T94_V2 in the
\* rotation epd_init() leaves (none is set): the full-panel size that
\* epd_displayWallpaper spells out.
PanelWidth == 128
PanelHeight == 296

\* The 16-bit colour values of the driver; GxEPD_BLACK is 0.
Colors == {"GxEPD_BLACK", "GxEPD_WHITE", "GxEPD_RED"}

\* The four u8g2 fonts the helpers select, with the pixel metrics
\* getUTF8Width (advance per glyph; the fonts are monospaced),
\* getFontAscent and getFontDescent report for them.
Fonts == {"profont29", "profont17", "profont15", "profont12"}

FontMetrics(font) ==
  CASE font = "profont29" -> [advance |-> 16, ascent |-> 18, descent |-> -5]
    [] font = "profont17" -> [advance |-> 9, ascent |-> 11, descent |-> -3]
    [] font = "profont15" -> [advance |-> 7, ascent |-> 9, descent |-> -3]
    [] font = "profont12" -> [advance |-> 6, ascent |-> 8, descent |-> -2]

\* s_u8g2_epd.getUTF8Width(text) under the given font.
getUTF8Width(font, text) == Len(text) * FontMetrics(font).advance

\* s_u8g2_epd.getFontAscent() - s_u8g2_epd.getFontDescent()
FontHeight(font) == FontMetrics(font).ascent - FontMetrics(font).descent

\* Integer division of C (truncation toward zero).
CDiv(a, b) == IF a >= 0 THEN a \div b ELSE -((-a) \div b)

Max(a, b) == IF a >= b THEN a ELSE b
Min(a, b) == IF a <= b THEN a ELSE b

\* A std::vector<uint8_t>: its size and, when the producer spelled them
\* out, its bytes; the random(256) fill of the default wallpaper has its
\* size only.
Buffer(bytes) == [len |-> Len(bytes), bytes |-> bytes]
NoiseBuffer(n) == [len |-> n, bytes |-> <<>>]

\* struct tm as localtime_r fills it (tm_mday, tm_mon) for a time_t.
Times == {[mday |-> 6, mon |-> 10], [mday |-> 31, mon |-> 0]}

\* Two decimal digits with a leading zero ("%02d").
TwoDigits(n) == IF n < 10 THEN "0" \o ToString(n) ELSE ToString(n)

\* snprintf(buf, sizeof(buf), "%02d.%02d", tm.tm_mday, tm.tm_mon + 1)
FormatDate(t) == TwoDigits(t.mday) \o "." \o TwoDigits(t.mon + 1)

\* layout.h: EpdComponent and EpdPage.
EpdComponentTypes ==
  {"EPD_COMP_HEADER", "EPD_COMP_ROW", "EPD_COMP_PROGRESS", "EPD_COMP_SEPARATOR"}

EpdComponent(type, text1, text2, value, color) ==
  [type |-> type, text1 |-> text1, text2 |-> text2, value |-> value,
   color |-> color]

EpdPage(title, components) == [title |-> title, components |-> components]

\* An epd_job_t: the fields of the struct and the identity of its
\* allocation (id); NoJob is the worker's `job = nullptr`.
NoJob ==
  [id |-> 0, type |-> "none", text |-> "", color |-> "GxEPD_BLACK",
   forceFull |-> FALSE, width |-> 0, height |-> 0, data |-> Buffer(<<>>),
   format |-> "", imageColor |-> "", time |-> [mday |-> 0, mon |-> 0],
   page |-> EpdPage("", <<>>)]

VARIABLES
  s_jobQueue,          \* the FreeRTOS queue: job pointers in arrival order
  s_isBlockedByTask,   \* volatile bool s_isBlockedByTask
  g_currentText,       \* String g_currentText
  g_partialEnabled,    \* bool g_partialEnabled
  workerPc,            \* position of epd_worker_task in its loop
  job,                 \* the worker's local epd_job_t *job
  step,                \* refresh cycles the running job has completed
  fgPc,                \* position of the foreground inside epd_isBusy()
  ret,                 \* the last foreground call and what it returned
                       \* ("true"/"false" for a bool, "void" for nothing)
  queued,              \* what _queueJob returned in the last foreground
                       \* call ("none" when that call did not reach it)
  nextId,              \* jobs created so far (identity of each allocation)
  renderJobs,          \* jobs created so far that are not JOB_CLEAR
  acceptedLog,         \* ids in the order xQueueSend accepted them
  startedLog,          \* ids in the order the worker dispatched them
  finishedLog,         \* ids in the order the worker finished them
  freed,               \* ids whose job object has been deleted
  panelLog,            \* ids in the order they took over the panel
  args,                \* what the producers of this run pass to the API
  hasPartialUpdate,    \* display.epd2.hasPartialUpdate
  panelOps,            \* driver calls made for the job in execution,
                       \* one batch per refresh cycle
  s_u8g2_epd,          \* U8G2_FOR_ADAFRUIT_GFX s_u8g2_epd: font, font mode,
                       \* colours and cursor as the last call left them
  millis,              \* millis(): milliseconds since boot
  controls,            \* controls.cpp: the three ButtonStates, the
                       \* registered callbacks and s_useDefaultActions
  invoked,             \* per button, the presses _pollButton detected
                       \* since the button last went down, each with
                       \* the handler it ran
  ui,                  \* ui.cpp: s_timeConfigured, s_initialDateShown, and
                       \* what wifi_isConnected() and time() report
  nyt,                 \* nytimes.cpp: the reader's navigation state
  locals               \* locals of the foreground handler that is between
                       \* two of its accesses to the pipeline

vars == <<s_jobQueue, s_isBlockedByTask, g_currentText, g_partialEnabled,
          workerPc, job, step, fgPc, ret, queued, nextId, renderJobs,
          acceptedLog, startedLog, finishedLog, freed, panelLog,
          args, hasPartialUpdate, panelOps, s_u8g2_epd, millis, controls,
          invoked, ui, nyt, locals>>

workerVars == <<workerPc, job, step, startedLog, finishedLog, panelLog>>
logVars == <<startedLog, finishedLog, panelLog>>
\* The inputs of a run: they are read, never written.
inputVars == <<args, hasPartialUpdate>>
\* The state of the application modules above the driver.
appVars == <<millis, controls, invoked, ui, nyt, locals>>

Range(s) == {s[i] : i \in 1..Len(s)}

\* A C++ bool as the foreground receives it.
Bool(b) == IF b THEN "true" ELSE "false"

\* Font modes of U8g2_for_Adafruit_GFX: 0 paints the background of every
\* glyph cell (solid), 1 paints the glyph only (transparent).
FontModes == {0, 1}

\* s_u8g2_epd as epd_init() leaves it: begin(display), then the large font,
\* black on white. The font mode is not set there; it is the one the
\* library's constructor chose.
U8g2AfterInit(mode) ==
  [font |-> "profont29", mode |-> mode, fg |-> "GxEPD_BLACK",
   bg |-> "GxEPD_WHITE", tx |-> 0, ty |-> 0]

\* ---------------------------------------------------------------- inputs
\* /wallpaper.bin as epd_displayWallpaper finds it: absent, or a 4-byte
\* size header followed by bitmap bytes.
NoWallpaperFile ==
  [exists |-> FALSE, width |-> 0, height |-> 0, data |-> Buffer(<<>>)]

\* The page the producers of the pipeline runs pass to epd_displayPage.
DefaultPage ==
  EpdPage("Status",
          <<EpdComponent("EPD_COMP_HEADER", "Server", "", 0, "GxEPD_BLACK"),
            EpdComponent("EPD_COMP_ROW", "Load", "up", 0, "GxEPD_RED")>>)

\* The arguments the producers of the pipeline runs pass: a black text, a
\* well-formed 8x2 "bw" image, a date, no custom wallpaper, a short page.
DefaultArgs ==
  [color |-> "GxEPD_BLACK", width |-> 8, height |-> 2,
   data |-> Buffer(<<129, 255>>), format |-> "bw", imageColor |-> "black",
   time |-> [mday |-> 6, mon |-> 10], wallpaper |-> NoWallpaperFile,
   page |-> DefaultPage]

\* ----------------------------------------------------- application state
\* controls.cpp: the three buttons, the levels digitalRead() reports.
Buttons == {"prev", "next", "confirm"}
Levels == {"HIGH", "LOW"}

\* struct ButtonState as controls_init() fills it at time t for a pin that
\* reads `reading` (pin numbers are left out).
ButtonState(reading, t) ==
  [raw |-> reading, stable |-> reading, idleState |-> "HIGH",
   lastChange |-> t, pressStart |-> 0, longFired |-> FALSE]

\* The seven callback pointers of controls.cpp, all nullptr.
NoCallbacks ==
  [s_prev_cb |-> "nullptr", s_next_cb |-> "nullptr",
   s_confirm_cb |-> "nullptr", s_longpress_cb |-> "nullptr",
   s_prev_long_cb |-> "nullptr", s_next_long_cb |-> "nullptr",
   s_confirm_long_cb |-> "nullptr"]

\* controls.cpp after controls_init() with no button held; pin is, per
\* button, the level digitalRead() reported last and the time of the first
\* call in a row that reported it.
ControlsAfterInit ==
  [btn |-> [b \in Buttons |-> ButtonState("HIGH", 0)],
   cb |-> NoCallbacks,
   s_useDefaultActions |-> TRUE,
   pin |-> [b \in Buttons |-> [level |-> "HIGH", since |-> 0]]]

\* controls.cpp after ui_init(): defaults off, the three short-press
\* callbacks and the long-press callback of Confirm registered.
ControlsAfterUiInit ==
  [ControlsAfterInit EXCEPT
     !.s_useDefaultActions = FALSE,
     !.cb = [NoCallbacks EXCEPT !.s_prev_cb = "ui_prev",
                                !.s_next_cb = "ui_next",
                                !.s_confirm_cb = "ui_select",
                                !.s_confirm_long_cb = "ui_back"]]

\* ui.cpp after ui_init(), with what wifi_isConnected() and
\* time(nullptr) > 1600000000 report at that moment; dateJobs are the jobs
\* ui_poll created through epd_displayDate.
UiAfterInit ==
  [wifi |-> FALSE, clock |-> FALSE, s_timeConfigured |-> FALSE,
   s_initialDateShown |-> FALSE, dateJobs |-> {}]

\* nytimes.cpp before the reader is opened: the list view, no article
\* prepared (size is s_currentArticleComponents.size()).
NytAtRest ==
  [s_viewingArticle |-> FALSE, s_componentIndex |-> 0, size |-> 0]

\* No handler is in progress: chosen_text and color of the
\* /apps/text/select handler, startIdx of render_article_with_offset, the
\* view callback that called it and the page index that one started from.
NoLocals ==
  [chosen_text |-> "", color |-> "GxEPD_RED", startIdx |-> 0, from |-> 0,
   call |-> "none"]

\* The application modules after setup(): controls_init(), ui_init().
AppBooted ==
  /\ millis = 0
  /\ controls = ControlsAfterUiInit
  /\ invoked = [b \in Buttons |-> <<>>]
  /\ ui = UiAfterInit
  /\ nyt = NytAtRest
  /\ locals = NoLocals

\* ------------------------------------------------------------------ Init
\* What epd_init() leaves of the module's own state: an empty queue, the
\* worker task created and blocked in xQueueReceive, nothing drawn yet.
Booted ==
  /\ s_jobQueue = <<>>
  /\ s_isBlockedByTask = FALSE
  /\ g_currentText = "Hello API"
  /\ g_partialEnabled = ENABLE_PARTIAL_UPDATE
  /\ workerPc = "wait"
  /\ job = NoJob
  /\ step = 0
  /\ fgPc = "idle"
  /\ ret = [api |-> "none", value |-> "void"]
  /\ queued = "none"
  /\ nextId = 0
  /\ renderJobs = 0
  /\ acceptedLog = <<>>
  /\ startedLog = <<>>
  /\ finishedLog = <<>>
  /\ freed = {}
  /\ panelLog = <<>>
  /\ panelOps = <<>>
  /\ AppBooted

\* The state after epd_init() on the device: the GxEPD2_290_T94_V2 panel
\* supports partial updates.
Init ==
  /\ Booted
  /\ args = DefaultArgs
  /\ hasPartialUpdate = TRUE
  /\ s_u8g2_epd = U8g2AfterInit(1)

\* ------------------------------------------------------------ job queue
\* A queue whose length check is off by one.
QueueHasRoom_OffByOne(q) == Len(q) <= QueueCapacity

\* xQueueSend(q, &job, 0) succeeds iff the queue holds fewer items than
\* the length it was created with.
QueueHasRoom(q) == Len(q) < QueueCapacity

\* A queue that overwrites its oldest item when it is full.
xQueueSend_EvictOldest(q, j) ==
  IF QueueHasRoom(q) THEN Append(q, j) ELSE Append(Tail(q), j)

\* The queue after xQueueSend(q, &j, 0): the item is copied to the back
\* when there is room, and nothing changes when there is none.
xQueueSend(q, j) == IF QueueHasRoom(q) THEN Append(q, j) ELSE q

\* uxQueueMessagesWaiting(s_jobQueue)
uxQueueMessagesWaiting == Len(s_jobQueue)

\* new epd_job_t(): a fresh, value-initialised allocation, told apart by
\* its id, with the three fields every producer decides set.
NewJob(type, text, forceFull) ==
  [NoJob EXCEPT !.id = nextId + 1, !.type = type, !.text = text,
                !.forceFull = forceFull]

\* static bool _queueJob(epd_job_t *job): hand the job to the queue, or
\* delete it and report false when the queue is full.
_queueJob(j) ==
  /\ s_jobQueue' = xQueueSend(s_jobQueue, j)
  /\ IF QueueHasRoom(s_jobQueue)
       THEN /\ queued' = "true"
            /\ acceptedLog' = Append(acceptedLog, j.id)
            /\ freed' = freed
       ELSE /\ queued' = "false"
            /\ acceptedLog' = acceptedLog
            /\ freed' = freed \cup {j.id}
  /\ nextId' = j.id
  /\ renderJobs' = IF j.type = "JOB_CLEAR" THEN renderJobs ELSE renderJobs + 1

\* What every enqueue call leaves alone.
EnqueueFrame ==
  UNCHANGED <<s_isBlockedByTask, g_currentText, g_partialEnabled,
              workerVars, fgPc, inputVars, panelOps, s_u8g2_epd,
              appVars>>

CanCreate(type) ==
  /\ fgPc = "idle"
  /\ nextId < MaxJobs
  /\ type # "JOB_CLEAR" => (renderJobs < MaxRenderJobs \/ nextId < MaxBurst)

\* ------------------------------------------------------- foreground API
\* A text request that queues a job for every text, the empty one included.
epd_displayText_QueuesEmpty(txt, forceFull) ==
  /\ CanCreate("JOB_TEXT")
  /\ _queueJob([NewJob("JOB_TEXT", txt, forceFull) EXCEPT !.color = args.color])
  /\ ret' = [api |-> "void", value |-> "void"]
  /\ EnqueueFrame

\* void epd_displayText(const String &txt, uint16_t color, bool forceFull)
epd_displayText(txt, forceFull) ==
  /\ fgPc = "idle"
  /\ IF txt = ""
       THEN /\ queued' = "none"
            /\ UNCHANGED <<s_jobQueue, acceptedLog, freed, nextId, renderJobs>>
       ELSE /\ CanCreate("JOB_TEXT")
            /\ _queueJob([NewJob("JOB_TEXT", txt, forceFull)
                            EXCEPT !.color = args.color])
  /\ ret' = [api |-> "void", value |-> "void"]
  /\ EnqueueFrame

\* void epd_displayHeader(const String &txt)
epd_displayHeader(txt) ==
  /\ fgPc = "idle"
  /\ IF txt = ""
       THEN /\ queued' = "none"
            /\ UNCHANGED <<s_jobQueue, acceptedLog, freed, nextId, renderJobs>>
       ELSE /\ CanCreate("JOB_HEADER")
            /\ _queueJob(NewJob("JOB_HEADER", txt, FALSE))
  /\ ret' = [api |-> "void", value |-> "void"]
  /\ EnqueueFrame

\* void epd_displayDate(time_t now)
epd_displayDate ==
  /\ CanCreate("JOB_DATE")
  /\ _queueJob([NewJob("JOB_DATE", "", FALSE) EXCEPT !.time = args.time])
  /\ ret' = [api |-> "void", value |-> "void"]
  /\ EnqueueFrame

\* The bitmap epd_displayWallpaper draws: /wallpaper.bin with the size its
\* header declares, or 128x296 bytes of seeded noise.
WallpaperImage(file) ==
  IF file.exists
    THEN [width |-> file.width, height |-> file.height, data |-> file.data]
    ELSE [width |-> PanelWidth, height |-> PanelHeight,
          data |-> NoiseBuffer(((PanelWidth + 7) \div 8) * PanelHeight)]

\* void epd_displayWallpaper(time_t now): an image job that carries the
\* date string as overlay text and always forces a full refresh.
epd_displayWallpaper ==
  /\ CanCreate("JOB_IMAGE")
  /\ _queueJob([NewJob("JOB_IMAGE", FormatDate(args.time), TRUE)
                EXCEPT !.width = WallpaperImage(args.wallpaper).width,
                       !.height = WallpaperImage(args.wallpaper).height,
                       !.data = WallpaperImage(args.wallpaper).data,
                       !.format = "bw", !.imageColor = "black"])
  /\ ret' = [api |-> "void", value |-> "void"]
  /\ EnqueueFrame

\* A clear that drives the panel from the caller's context instead of
\* queueing a job.
epd_clear_Synchronous ==
  /\ fgPc = "idle"
  /\ panelOps' =
       <<[by |-> "foreground", job |-> 0, pen |-> s_u8g2_epd,
          calls |-> [k \in 1..4 |->
                      [op |-> <<"setFullWindow", "firstPage",
                                "fillScreen", "nextPage">>[k],
                       x |-> 0, y |-> 0, w |-> 0, h |-> 0,
                       c |-> "GxEPD_WHITE", s |-> "", part |-> 0]]]>>
  /\ ret' = [api |-> "void", value |-> "void"]
  /\ queued' = "none"
  /\ UNCHANGED <<s_jobQueue, s_isBlockedByTask, g_currentText,
                 g_partialEnabled, workerVars, fgPc, nextId, renderJobs,
                 acceptedLog, freed, inputVars, s_u8g2_epd, appVars>>

\* void epd_clear()
epd_clear ==
  /\ CanCreate("JOB_CLEAR")
  /\ _queueJob(NewJob("JOB_CLEAR", "", FALSE))
  /\ ret' = [api |-> "void", value |-> "void"]
  /\ EnqueueFrame

\* void epd_forceClear()
epd_forceClear ==
  /\ CanCreate("JOB_FORCE_CLEAR")
  /\ _queueJob(NewJob("JOB_FORCE_CLEAR", "", FALSE))
  /\ ret' = [api |-> "void", value |-> "void"]
  /\ EnqueueFrame

\* A force-clear request that reports success without looking at the queue.
epd_forceClear_async_AlwaysTrue ==
  /\ CanCreate("JOB_FORCE_CLEAR")
  /\ _queueJob(NewJob("JOB_FORCE_CLEAR", "", FALSE))
  /\ ret' = [api |-> "epd_forceClear_async", value |-> "true"]
  /\ EnqueueFrame

\* bool epd_forceClear_async(): return _queueJob(new epd_job_t{JOB_FORCE_CLEAR})
epd_forceClear_async ==
  /\ CanCreate("JOB_FORCE_CLEAR")
  /\ _queueJob(NewJob("JOB_FORCE_CLEAR", "", FALSE))
  /\ ret' = [api |-> "epd_forceClear_async", value |-> queued']
  /\ EnqueueFrame

\* bool epd_drawImageFromBitplanes(width, height, data, format, color, forceFull)
epd_drawImageFromBitplanes(forceFull) ==
  /\ CanCreate("JOB_IMAGE")
  /\ _queueJob([NewJob("JOB_IMAGE", "", forceFull)
                EXCEPT !.width = args.width, !.height = args.height,
                       !.data = args.data, !.format = args.format,
                       !.imageColor = args.imageColor])
  /\ ret' = [api |-> "epd_drawImageFromBitplanes", value |-> queued']
  /\ EnqueueFrame

\* void epd_displayPage(const EpdPage& page)
epd_displayPage ==
  /\ CanCreate("JOB_PAGE")
  /\ _queueJob([NewJob("JOB_PAGE", "", FALSE) EXCEPT !.page = args.page])
  /\ ret' = [api |-> "void", value |-> "void"]
  /\ EnqueueFrame

\* Jobs the queue accepted that the worker has not finished.
Outstanding == Range(acceptedLog) \ Range(finishedLog)

\* The worker is inside the section its busy flag brackets: it has
\* announced the job and has not yet freed it.
Executing == workerPc \in {"exec", "render"}

\* What a query of the foreground leaves alone.
QueryFrame ==
  /\ queued' = "none"
  /\ UNCHANGED <<s_jobQueue, s_isBlockedByTask, workerVars, nextId,
                 renderJobs, acceptedLog, freed, inputVars, panelOps,
                 s_u8g2_epd, appVars>>

\* bool epd_isBusy(): the left operand of
\*   s_isBlockedByTask || (uxQueueMessagesWaiting(s_jobQueue) > 0)
\* is read first; when it is true the call returns without reading the queue.
epd_isBusy_flag ==
  /\ fgPc = "idle"
  /\ IF s_isBlockedByTask
       THEN /\ ret' = [api |-> "epd_isBusy", value |-> "true"]
            /\ fgPc' = "idle"
       ELSE /\ fgPc' = "isBusy_queue"
            /\ UNCHANGED ret
  /\ UNCHANGED <<g_currentText, g_partialEnabled>>
  /\ QueryFrame

\* bool epd_isBusy(): the right operand, read after the flag was seen false.
epd_isBusy_queue ==
  /\ fgPc = "isBusy_queue"
  /\ ret' = [api |-> "epd_isBusy", value |-> Bool(uxQueueMessagesWaiting > 0)]
  /\ fgPc' = "idle"
  /\ UNCHANGED <<g_currentText, g_partialEnabled>>
  /\ QueryFrame

\* String epd_getCurrentText()
epd_getCurrentText ==
  /\ fgPc = "idle"
  /\ ret' = [api |-> "epd_getCurrentText", value |-> g_currentText]
  /\ UNCHANGED <<g_currentText, g_partialEnabled, fgPc>>
  /\ QueryFrame

\* void epd_setPartialEnabled(bool enabled)
epd_setPartialEnabled(enabled) ==
  /\ fgPc = "idle"
  /\ g_partialEnabled' = enabled
  /\ ret' = [api |-> "void", value |-> "void"]
  /\ UNCHANGED <<g_currentText, fgPc>>
  /\ QueryFrame

\* bool epd_getPartialEnabled()
epd_getPartialEnabled ==
  /\ fgPc = "idle"
  /\ ret' = [api |-> "epd_getPartialEnabled", value |-> Bool(g_partialEnabled)]
  /\ UNCHANGED <<g_currentText, g_partialEnabled, fgPc>>
  /\ QueryFrame

\* bool epd_hasPartialUpdate(): reads the constant display.epd2.hasPartialUpdate
epd_hasPartialUpdate ==
  /\ fgPc = "idle"
  /\ ret' = [api |-> "epd_hasPartialUpdate", value |-> Bool(hasPartialUpdate)]
  /\ UNCHANGED <<g_currentText, g_partialEnabled, fgPc>>
  /\ QueryFrame

\* int epd_width(): display.width(), a getter of the driver object.
epd_width ==
  /\ fgPc = "idle"
  /\ ret' = [api |-> "epd_width", value |-> ToString(PanelWidth)]
  /\ UNCHANGED <<g_currentText, g_partialEnabled, fgPc>>
  /\ QueryFrame

\* int epd_height(): display.height(), a getter of the driver object.
epd_height ==
  /\ fgPc = "idle"
  /\ ret' = [api |-> "epd_height", value |-> ToString(PanelHeight)]
  /\ UNCHANGED <<g_currentText, g_partialEnabled, fgPc>>
  /\ QueryFrame

\* ------------------------------------------------------------- rendering
\* One call into the panel driver (display.*) or into the u8g2 text helper
\* that draws through it (s_u8g2_epd.*): its name and arguments. `part` is
\* the position in the page's component list of the component the call
\* draws (0 for every other call).
Op(op, x, y, w, h, c, str) ==
  [op |-> op, x |-> x, y |-> y, w |-> w, h |-> h, c |-> c, s |-> str,
   part |-> 0]

setFont(font) == Op("setFont", 0, 0, 0, 0, "", font)
setFontMode(mode) == Op("setFontMode", mode, 0, 0, 0, "", "")
setForegroundColor(c) == Op("setForegroundColor", 0, 0, 0, 0, c, "")
setBackgroundColor(c) == Op("setBackgroundColor", 0, 0, 0, 0, c, "")
setCursor(x, y) == Op("setCursor", x, y, 0, 0, "", "")
print(str) == Op("print", 0, 0, 0, 0, "", str)
setFullWindow == Op("setFullWindow", 0, 0, 0, 0, "", "")
setPartialWindow(x, y, w, h) == Op("setPartialWindow", x, y, w, h, "", "")
firstPage == Op("firstPage", 0, 0, 0, 0, "", "")
nextPage == Op("nextPage", 0, 0, 0, 0, "", "")
fillScreen(c) == Op("fillScreen", 0, 0, 0, 0, c, "")
fillRect(x, y, w, h, c) == Op("fillRect", x, y, w, h, c, "")
drawRect(x, y, w, h, c) == Op("drawRect", x, y, w, h, c, "")
drawFastHLine(x, y, w, c) == Op("drawFastHLine", x, y, w, 0, c, "")
vTaskDelay(ms) == Op("vTaskDelay", ms, 0, 0, 0, "", "")

\* A partial-update test that forgets the job's forceFull flag.
UsedPartial_IgnoresForceFull(j) == g_partialEnabled /\ hasPartialUpdate

\* A partial-update test that uses the compile-time default in place of
\* the runtime setting.
UsedPartial_CompileTime(j) ==
  ENABLE_PARTIAL_UPDATE /\ hasPartialUpdate /\ ~j.forceFull

\* bool usedPartial of _exec_displayText and _exec_drawImage:
\*   g_partialEnabled && display.epd2.hasPartialUpdate && !job.forceFull
UsedPartial(j) == g_partialEnabled /\ hasPartialUpdate /\ ~j.forceFull

\* The font, the centred cursor and the padded, clamped rectangle
\* _exec_displayText computes for a text.
TextLayout(text) ==
  LET font == IF getUTF8Width("profont29", text) > PanelWidth - 8
                THEN "profont17" ELSE "profont29"
      bw == getUTF8Width(font, text)
      bh == FontHeight(font)
      pad == 4
      rx == Max(0, CDiv(PanelWidth - bw, 2) - pad)
      ry == Max(0, CDiv(PanelHeight - bh, 2) - pad)
  IN [font |-> font, bw |-> bw, bh |-> bh,
      cx |-> CDiv(PanelWidth - bw, 2),
      cy |-> CDiv(PanelHeight, 2) + CDiv(FontMetrics(font).ascent, 2),
      rx |-> rx, ry |-> ry,
      rw |-> Min(PanelWidth - rx, bw + pad * 2),
      rh |-> Min(PanelHeight - ry, bh + pad * 2)]

\* static void _exec_displayText(const epd_job_t &job), after it recorded
\* the text: the calls it makes, with usedPartial as it evaluated it.
_exec_displayText(j, usedPartial) ==
  LET L == TextLayout(j.text)
  IN <<setFont("profont29"), setBackgroundColor("GxEPD_WHITE"),
       setForegroundColor(j.color)>>
     \o (IF L.font = "profont17" THEN <<setFont("profont17")>> ELSE <<>>)
     \o <<IF usedPartial THEN setPartialWindow(L.rx, L.ry, L.rw, L.rh)
                         ELSE setFullWindow,
          firstPage,
          IF usedPartial THEN fillRect(L.rx, L.ry, L.rw, L.rh, "GxEPD_WHITE")
                         ELSE fillScreen("GxEPD_WHITE"),
          setCursor(L.cx, L.cy), print(j.text), nextPage>>

\* static void _exec_displayHeader(const epd_job_t &job)
_exec_displayHeader(j) ==
  LET rw == PanelWidth
      rh == FontHeight("profont17") + 8
  IN <<setFont("profont17"), setBackgroundColor("GxEPD_WHITE"),
       setForegroundColor("GxEPD_BLACK"),
       setPartialWindow(0, 0, rw, rh), firstPage,
       fillRect(0, 0, rw, rh, "GxEPD_BLACK"),
       setForegroundColor("GxEPD_WHITE"),
       setCursor(8, FontMetrics("profont17").ascent + 4), print(j.text),
       nextPage>>

\* The bytes of a bitmap, written out: what the pixelOn tests of
\* _exec_image_bw see.
RECURSIVE ByteString(_)
ByteString(bytes) ==
  IF bytes = <<>> THEN ""
  ELSE ToString(Head(bytes)) \o "," \o ByteString(Tail(bytes))

\* A job that keeps a reference to the caller's vector instead of a copy:
\* an uploaded image is read from wherever the caller's buffer is by then.
JobData_Aliased(j, callerBuffer) ==
  IF j.type = "JOB_IMAGE" /\ j.text = "" THEN callerBuffer ELSE j.data

\* job.data as the worker reads it: epd_job_t holds a std::vector<uint8_t>
\* by value, filled by `job->data = data; // copies vector`, so it is the
\* job's own bytes whatever the caller's buffer holds by then.
JobData(j, callerBuffer) == j.data

\* What the out-of-range img[byteIndex] of _exec_image_bw can yield.
StrayBytes == {0, 255}

\* The bytes _exec_image_bw needs for a width x height bitmap:
\* one past the largest byteIndex it reads.
BytesRead(width, height) ==
  IF width > 0 /\ height > 0 THEN ((width + 7) \div 8) * height ELSE 0

\* What the reads of _exec_image_bw beyond the end of job j's bitmap can
\* yield; a job that makes no such read has one outcome.
StrayOutcomes(j) ==
  IF /\ j.type = "JOB_IMAGE"
     /\ j.format # "empty"
     /\ j.data.len < BytesRead(j.width, j.height)
    THEN StrayBytes
    ELSE {0}

\* static void _exec_image_bw(width, height, img, rx, ry, color): the
\* drawPixel calls of its two loops, taken together. The bitmap is read
\* without a bounds check; when it is shorter than the loops assume, the
\* missing bytes are whatever lies behind the vector (stray).
_exec_image_bw(width, height, img, rx, ry, stray) ==
  IF width <= 0 \/ height <= 0
    THEN <<>>
    ELSE <<Op("drawPixel", rx, ry, width, height, "GxEPD_BLACK",
              IF img.len < BytesRead(width, height)
                THEN "out-of-bounds:" \o ToString(stray)
                ELSE "image:" \o ByteString(img.bytes))>>

\* static void _exec_drawImage(const epd_job_t &job)
_exec_drawImage(j, usedPartial, stray) ==
  LET rx == CDiv(PanelWidth - j.width, 2)
      ry == CDiv(PanelHeight - j.height, 2)
      tw == getUTF8Width("profont17", j.text)
      th == FontHeight("profont17")
      text_x == PanelWidth - tw - 4
      text_y == PanelHeight - 4
  IN <<IF usedPartial THEN setPartialWindow(rx, ry, j.width, j.height)
                      ELSE setFullWindow,
       firstPage,
       IF usedPartial THEN fillRect(rx, ry, j.width, j.height, "GxEPD_WHITE")
                      ELSE fillScreen("GxEPD_WHITE")>>
     \o (IF j.format # "empty"
           THEN _exec_image_bw(j.width, j.height, JobData(j, args.data),
                               rx, ry, stray)
           ELSE <<>>)
     \o (IF Len(j.text) > 0
           THEN <<setFont("profont17"), setForegroundColor("GxEPD_BLACK"),
                  setBackgroundColor("GxEPD_WHITE"),
                  fillRect(text_x - 2, text_y - th - 2, tw + 4, th + 4,
                           "GxEPD_WHITE"),
                  setCursor(text_x, text_y), print(j.text)>>
           ELSE <<>>)
     \o <<nextPage>>

\* A date job that leaves the partial/full decision to the setting.
DateJob_HonoursPartial(j) ==
  [j EXCEPT !.type = "JOB_IMAGE", !.width = PanelWidth,
            !.height = PanelHeight, !.data = Buffer(<<>>),
            !.format = "empty", !.imageColor = "black",
            !.text = FormatDate(j.time)]

\* case JOB_DATE of epd_worker_task: the image job it builds from the date
\* job and hands to _exec_drawImage.
DateJob(j) ==
  [j EXCEPT !.type = "JOB_IMAGE", !.width = PanelWidth,
            !.height = PanelHeight, !.data = Buffer(<<>>),
            !.format = "empty", !.imageColor = "black", !.forceFull = TRUE,
            !.text = FormatDate(j.time)]

\* comp.color == 0 ? GxEPD_BLACK : comp.color
ComponentColor(comp) ==
  IF comp.color = "GxEPD_BLACK" THEN "GxEPD_BLACK" ELSE comp.color

\* A fill measured against the whole bar, border included.
ProgressFill_WholeBar(barW, value) == CDiv(barW * value, 100)

\* int16_t fillW = (int16_t)((barW - 4) * (comp.value / 100.0f))
ProgressFill(barW, value) == CDiv((barW - 4) * value, 100)

\* The cursor below which _exec_displayPage starts no further component:
\* display.height() - 12.
PageBottomMargin == 12

\* A page loop that squeezes one more component in below the limit.
PageStops_OneLate(currY) == currY > PanelHeight - PageBottomMargin + 1

\* if (currY > display.height() - 12) break;
PageStops(currY) == currY > PanelHeight - PageBottomMargin

\* The cursor after the title block of _exec_displayPage.
PageStartY(title) ==
  IF Len(title) > 0 THEN FontMetrics("profont15").ascent + 8 + 10 ELSE 2

\* What one component adds to currY.
ComponentAdvance(comp) ==
  CASE comp.type = "EPD_COMP_HEADER" -> FontHeight("profont15") + 1
    [] comp.type = "EPD_COMP_ROW" -> 12
    [] comp.type = "EPD_COMP_PROGRESS" -> 14
    [] comp.type = "EPD_COMP_SEPARATOR" -> 4

\* A row that places and prints its value whether or not there is one.
ComponentOps_AlwaysValue(comp, currY) ==
  LET a15 == FontMetrics("profont15").ascent
      a12 == FontMetrics("profont12").ascent
      barW == PanelWidth - 100
      barX == PanelWidth - barW - 30
      barY == currY + 2
      barH == 8
      fillW == ProgressFill(barW, comp.value)
  IN CASE comp.type = "EPD_COMP_HEADER" ->
            <<setFont("profont15"), setForegroundColor("GxEPD_BLACK"),
              setCursor(2, currY + a15), print(comp.text1),
              setCursor(3, currY + a15), print(comp.text1)>>
       [] comp.type = "EPD_COMP_ROW" ->
            <<setFont("profont15"), setForegroundColor("GxEPD_BLACK"),
              setCursor(2, currY + a15), print(comp.text1)>>
            \o <<setForegroundColor(ComponentColor(comp)),
                 setCursor(PanelWidth
                             - getUTF8Width("profont15", comp.text2) - 2,
                           currY + a15),
                 print(comp.text2)>>
       [] comp.type = "EPD_COMP_PROGRESS" ->
            <<setFont("profont12"), setForegroundColor("GxEPD_BLACK"),
              setCursor(2, currY + a12), print(comp.text1),
              drawRect(barX, barY, barW, barH, "GxEPD_BLACK")>>
            \o (IF fillW > 0
                  THEN <<fillRect(barX + 2, barY + 2, fillW, barH - 4,
                                  ComponentColor(comp))>>
                  ELSE <<>>)
            \o <<setCursor(PanelWidth - 25, currY + a12), print(comp.text2)>>
       [] comp.type = "EPD_COMP_SEPARATOR" ->
            <<drawFastHLine(2, currY + 1, PanelWidth - 4, "GxEPD_BLACK")>>

\* The body of the switch (comp.type) for one component at cursor currY.
ComponentOps(comp, currY) ==
  LET a15 == FontMetrics("profont15").ascent
      a12 == FontMetrics("profont12").ascent
      barW == PanelWidth - 100
      barX == PanelWidth - barW - 30
      barY == currY + 2
      barH == 8
      fillW == ProgressFill(barW, comp.value)
  IN CASE comp.type = "EPD_COMP_HEADER" ->
            <<setFont("profont15"), setForegroundColor("GxEPD_BLACK"),
              setCursor(2, currY + a15), print(comp.text1),
              setCursor(3, currY + a15), print(comp.text1)>>
       [] comp.type = "EPD_COMP_ROW" ->
            <<setFont("profont15"), setForegroundColor("GxEPD_BLACK"),
              setCursor(2, currY + a15), print(comp.text1)>>
            \o (IF Len(comp.text2) > 0
                  THEN <<setForegroundColor(ComponentColor(comp)),
                         setCursor(PanelWidth
                                     - getUTF8Width("profont15", comp.text2)
                                     - 2,
                                   currY + a15),
                         print(comp.text2)>>
                  ELSE <<>>)
       [] comp.type = "EPD_COMP_PROGRESS" ->
            <<setFont("profont12"), setForegroundColor("GxEPD_BLACK"),
              setCursor(2, currY + a12), print(comp.text1),
              drawRect(barX, barY, barW, barH, "GxEPD_BLACK")>>
            \o (IF fillW > 0
                  THEN <<fillRect(barX + 2, barY + 2, fillW, barH - 4,
                                  ComponentColor(comp))>>
                  ELSE <<>>)
            \o <<setCursor(PanelWidth - 25, currY + a12), print(comp.text2)>>
       [] comp.type = "EPD_COMP_SEPARATOR" ->
            <<drawFastHLine(2, currY + 1, PanelWidth - 4, "GxEPD_BLACK")>>

\* The calls of ops, marked as drawing component number i.
PartOf(ops, i) == [k \in 1..Len(ops) |-> [ops[k] EXCEPT !.part = i]]

\* A page loop that rules a line under the last component it drew when it
\* had to leave components out.
RECURSIVE PageComponents_MarksOverflow(_, _, _)
PageComponents_MarksOverflow(comps, i, currY) ==
  IF i > Len(comps)
    THEN <<>>
    ELSE IF PageStops(currY)
      THEN <<drawFastHLine(2, currY, PanelWidth - 4, "GxEPD_BLACK")>>
      ELSE PartOf(<<setFontMode(1)>> \o ComponentOps(comps[i], currY), i)
           \o PageComponents_MarksOverflow(comps, i + 1,
                                           currY + ComponentAdvance(comps[i]))

\* for (const auto& comp : job.page.components): the components from
\* position i on, with the cursor at currY.
RECURSIVE PageComponents(_, _, _)
PageComponents(comps, i, currY) ==
  IF i > Len(comps) \/ PageStops(currY)
    THEN <<>>
    ELSE PartOf(<<setFontMode(1)>> \o ComponentOps(comps[i], currY), i)
         \o PageComponents(comps, i + 1, currY + ComponentAdvance(comps[i]))

\* A page renderer that takes the partial path when the setting allows it.
_exec_displayPage_Partial(j) ==
  <<IF UsedPartial(j)
      THEN setPartialWindow(0, 0, PanelWidth, PanelHeight)
      ELSE setFullWindow,
    firstPage, fillScreen("GxEPD_WHITE"), nextPage>>

\* A page renderer that prints the title in whatever colour was last set.
_exec_displayPage_KeepsColour(j) ==
  LET a15 == FontMetrics("profont15").ascent
  IN <<setFullWindow, firstPage, fillScreen("GxEPD_WHITE")>>
     \o (IF Len(j.page.title) > 0
           THEN <<setFont("profont15"), setFontMode(1),
                  setCursor(2, a15 + 4), print(j.page.title),
                  setCursor(3, a15 + 4), print(j.page.title),
                  drawFastHLine(0, a15 + 8, PanelWidth, "GxEPD_BLACK"),
                  drawFastHLine(0, a15 + 8 + 1, PanelWidth, "GxEPD_BLACK")>>
           ELSE <<>>)
     \o PageComponents(j.page.components, 1, PageStartY(j.page.title))
     \o <<nextPage>>

\* static void _exec_displayPage(const epd_job_t &job)
_exec_displayPage(j) ==
  LET a15 == FontMetrics("profont15").ascent
  IN <<setFullWindow, firstPage, fillScreen("GxEPD_WHITE")>>
     \o (IF Len(j.page.title) > 0
           THEN <<setFont("profont15"), setFontMode(1),
                  setForegroundColor("GxEPD_BLACK"),
                  setCursor(2, a15 + 4), print(j.page.title),
                  setCursor(3, a15 + 4), print(j.page.title),
                  drawFastHLine(0, a15 + 8, PanelWidth, "GxEPD_BLACK"),
                  drawFastHLine(0, a15 + 8 + 1, PanelWidth, "GxEPD_BLACK")>>
           ELSE <<>>)
     \o PageComponents(j.page.components, 1, PageStartY(j.page.title))
     \o <<nextPage>>

\* A force-clear that ends on a black frame.
ClearColor_EndsBlack(force, n) ==
  IF force /\ (n > 2 * ForceClearCycles \/ n % 2 = 0)
    THEN "GxEPD_BLACK" ELSE "GxEPD_WHITE"

\* The colour of refresh cycle n (counted from 1) of _exec_clear(force):
\* white, black, white, black, ... and a closing white for a force-clear,
\* one white fill otherwise.
ClearColor(force, n) ==
  IF force /\ n <= 2 * ForceClearCycles /\ n % 2 = 0
    THEN "GxEPD_BLACK" ELSE "GxEPD_WHITE"

\* static void _exec_clear(bool force): refresh cycle n (counted from 1),
\* with the vTaskDelay that follows it in a force-clear.
_exec_clear(force, n) ==
  <<setFullWindow, firstPage, fillScreen(ClearColor(force, n)), nextPage>>
  \o (IF force
        THEN <<vTaskDelay(IF n <= 2 * ForceClearCycles THEN 400 ELSE 200)>>
        ELSE <<>>)

\* switch (job->type) of epd_worker_task: the calls of refresh cycle n
\* (counted from 1) of job j.
CycleOps(j, n, stray) ==
  CASE j.type = "JOB_TEXT" -> _exec_displayText(j, UsedPartial(j))
    [] j.type = "JOB_IMAGE" -> _exec_drawImage(j, UsedPartial(j), stray)
    [] j.type = "JOB_CLEAR" -> _exec_clear(FALSE, n)
    [] j.type = "JOB_FORCE_CLEAR" -> _exec_clear(TRUE, n)
    [] j.type = "JOB_DATE" ->
         _exec_drawImage(DateJob(j), UsedPartial(DateJob(j)), stray)
    [] j.type = "JOB_HEADER" -> _exec_displayHeader(j)
    [] j.type = "JOB_PAGE" -> _exec_displayPage(j)

\* The panel calls of one refresh cycle as the log keeps them: who made
\* them, for which job, the state of s_u8g2_epd they started from, and the
\* calls in order.
Batch(by, id, pen, ops) ==
  [by |-> by, job |-> id, pen |-> pen, calls |-> ops]

\* ----------------------------------------------------- u8g2 text helper
\* What one call does to the state of s_u8g2_epd: the setters store their
\* argument, print leaves the cursor behind the text, display.* calls do
\* not touch it.
U8g2Apply(pen, call) ==
  CASE call.op = "setFont" -> [pen EXCEPT !.font = call.s]
    [] call.op = "setFontMode" -> [pen EXCEPT !.mode = call.x]
    [] call.op = "setForegroundColor" -> [pen EXCEPT !.fg = call.c]
    [] call.op = "setBackgroundColor" -> [pen EXCEPT !.bg = call.c]
    [] call.op = "setCursor" -> [pen EXCEPT !.tx = call.x, !.ty = call.y]
    [] call.op = "print" ->
         [pen EXCEPT !.tx = pen.tx + getUTF8Width(pen.font, call.s)]
    [] OTHER -> pen

\* The state of s_u8g2_epd after the calls at positions lo..hi, made in
\* order from state pen (the range is halved to keep the evaluation flat).
RECURSIVE U8g2After(_, _, _, _)
U8g2After(calls, lo, hi, pen) ==
  IF lo > hi THEN pen
  ELSE IF lo = hi THEN U8g2Apply(pen, calls[lo])
  ELSE LET mid == (lo + hi) \div 2
       IN CHOOSE after \in {U8g2After(calls, mid + 1, hi, half) :
                              half \in {U8g2After(calls, lo, mid, pen)}} :
            TRUE

U8g2Setters ==
  {"setFont", "setFontMode", "setForegroundColor", "setBackgroundColor",
   "setCursor"}

\* What one call paints into the frame buffer: print paints the glyphs of
\* its text at the cursor, in the font and foreground colour of the moment
\* and, in solid font mode (0), their cells in the background colour; a
\* display.* call paints what its arguments say; a setter paints nothing.
Painted(pen, call) ==
  IF call.op = "print"
    THEN <<[op |-> "glyphs", s |-> call.s, x |-> pen.tx, y |-> pen.ty,
            font |-> pen.font, fg |-> pen.fg,
            bg |-> IF pen.mode = 1 THEN "transparent" ELSE pen.bg,
            part |-> call.part]>>
    ELSE IF call.op \in U8g2Setters THEN <<>> ELSE <<call>>

\* The frame the calls at positions lo..hi paint, started with s_u8g2_epd
\* in state pen.
RECURSIVE Pixels(_, _, _, _)
Pixels(calls, lo, hi, pen) ==
  IF lo > hi THEN <<>>
  ELSE IF lo = hi THEN Painted(pen, calls[lo])
  ELSE LET mid == (lo + hi) \div 2
       IN Pixels(calls, lo, mid, pen)
          \o (CHOOSE rest \in {Pixels(calls, mid + 1, hi, half) :
                                 half \in {U8g2After(calls, lo, mid, pen)}} :
                 TRUE)

\* ---------------------------------------------------------------- worker
\* Refresh cycles (firstPage .. nextPage) one job of this type drives:
\* _exec_clear(true) runs `cycles` white/black pairs and a final white fill,
\* every other _exec_* helper runs one.
Refreshes(type) ==
  IF type = "JOB_FORCE_CLEAR" THEN 2 * ForceClearCycles + 1 ELSE 1

\* A helper that gives up its job as soon as a newer one is waiting.
JobDone_Abortable(j, n) == n = Refreshes(j.type) \/ s_jobQueue # <<>>

\* The _exec_* helper of job j returns once it has driven all of its
\* refresh cycles; n is the number it has driven so far.
JobDone(j, n) == n = Refreshes(j.type)

\* A worker that polls the queue again while a job is still rendering.
WorkerAtReceive_Reentrant == workerPc \in {"wait", "render"}

\* The loop of epd_worker_task takes a job only at its head, in
\* xQueueReceive(s_jobQueue, &job, portMAX_DELAY).
WorkerAtReceive == workerPc = "wait"

\* A queue that hands out its newest item.
xQueueReceive_Newest(q) == q[Len(q)]

\* xQueueReceive hands out the item at the front of the queue.
xQueueReceive(q) == Head(q)

\* A receive that leaves the item in the queue (a peek).
QueueAfterReceive_Peek(q) == q

\* The queue after xQueueReceive took its item.
QueueAfterReceive(q) == Tail(q)

\* A task function that returns after its first job.
WorkerLoop_Exit == "stopped"

\* Where the worker goes after `s_isBlockedByTask = false`: back to the
\* head of while (true).
WorkerLoop == "wait"

\* line 81: xQueueReceive returns pdPASS with a non-null job.
WorkerReceive ==
  /\ WorkerAtReceive
  /\ s_jobQueue # <<>>
  /\ job' = xQueueReceive(s_jobQueue)
  /\ s_jobQueue' = QueueAfterReceive(s_jobQueue)
  /\ workerPc' = "got"
  /\ UNCHANGED <<s_isBlockedByTask, g_currentText, g_partialEnabled, step,
                 fgPc, ret, queued, nextId, renderJobs, acceptedLog, freed,
                 logVars, inputVars, panelOps, s_u8g2_epd, appVars>>

\* line 82: s_isBlockedByTask = true
WorkerSetBusy ==
  /\ workerPc = "got"
  /\ s_isBlockedByTask' = TRUE
  /\ workerPc' = "exec"
  /\ UNCHANGED <<s_jobQueue, g_currentText, g_partialEnabled, job, step,
                 fgPc, ret, queued, nextId, renderJobs, acceptedLog, freed,
                 logVars, inputVars, panelOps, s_u8g2_epd, appVars>>

\* A worker in which every job leaves its text field in g_currentText.
RecordedText_AnyJob(j, current) == j.text

\* g_currentText after the helper of job j was entered: only
\* _exec_displayText assigns it (g_currentText = job.text, its first
\* statement).
RecordedText(j, current) == IF j.type = "JOB_TEXT" THEN j.text ELSE current

\* lines 84-123: switch (job->type) enters the _exec_* helper of the job;
\* _exec_displayText records the text before it draws.
WorkerDispatch ==
  /\ workerPc = "exec"
  /\ startedLog' = Append(startedLog, job.id)
  /\ g_currentText' = RecordedText(job, g_currentText)
  /\ step' = 0
  /\ workerPc' = "render"
  /\ UNCHANGED <<s_jobQueue, s_isBlockedByTask, g_partialEnabled, job,
                 fgPc, ret, queued, nextId, renderJobs, acceptedLog, freed,
                 finishedLog, panelLog, inputVars, panelOps, s_u8g2_epd,
                 appVars>>

\* One refresh cycle of the running job: set the window, firstPage, draw,
\* nextPage (and, in _exec_clear(true), the vTaskDelay that follows it).
\* The calls are made in the worker's context and on behalf of its job.
WorkerRender ==
  /\ workerPc = "render"
  /\ ~JobDone(job, step)
  /\ step < Refreshes(job.type)
  /\ step' = step + 1
  /\ \E stray \in StrayOutcomes(job) :
       \E ops \in {CycleOps(job, step + 1, stray)} :
         /\ panelOps' = Append(panelOps,
                               Batch("worker", job.id, s_u8g2_epd, ops))
         /\ s_u8g2_epd' = U8g2After(ops, 1, Len(ops), s_u8g2_epd)
  /\ panelLog' = IF panelLog # <<>> /\ panelLog[Len(panelLog)] = job.id
                   THEN panelLog
                   ELSE Append(panelLog, job.id)
  /\ UNCHANGED <<s_jobQueue, s_isBlockedByTask, g_currentText,
                 g_partialEnabled, workerPc, job, fgPc, ret, queued, nextId,
                 renderJobs, acceptedLog, freed, startedLog, finishedLog,
                 inputVars, appVars>>

\* A worker that forgets to clear its busy flag.
WorkerFinish_KeepsFlag ==
  /\ workerPc = "render"
  /\ JobDone(job, step)
  /\ finishedLog' = Append(finishedLog, job.id)
  /\ freed' = freed \cup {job.id}
  /\ job' = NoJob
  /\ step' = 0
  /\ workerPc' = WorkerLoop
  /\ panelOps' = <<>>
  /\ UNCHANGED <<s_jobQueue, s_isBlockedByTask, g_currentText,
                 g_partialEnabled, fgPc, ret, queued, nextId, renderJobs,
                 acceptedLog, startedLog, panelLog, inputVars, s_u8g2_epd,
                 appVars>>

\* lines 126-127: the helper has returned; delete job;
\* s_isBlockedByTask = false; back to the head of the loop. The log of
\* panel calls is that of the job in execution and ends with it.
WorkerFinish ==
  /\ workerPc = "render"
  /\ JobDone(job, step)
  /\ finishedLog' = Append(finishedLog, job.id)
  /\ freed' = freed \cup {job.id}
  /\ s_isBlockedByTask' = FALSE
  /\ job' = NoJob
  /\ step' = 0
  /\ workerPc' = WorkerLoop
  /\ panelOps' = <<>>
  /\ UNCHANGED <<s_jobQueue, g_currentText, g_partialEnabled, fgPc, ret,
                 queued, nextId, renderJobs, acceptedLog, startedLog,
                 panelLog, inputVars, s_u8g2_epd, appVars>>

epd_worker_task ==
  \/ WorkerReceive
  \/ WorkerSetBusy
  \/ WorkerDispatch
  \/ WorkerRender
  \/ WorkerFinish

\* ------------------------------------------------------------- text app
\* static const char* k_text_options[] (text_app.cpp)
k_text_options ==
  <<"Hello API", "Ciao", "Buongiorno", "Benvenuto", "Testo di prova">>

\* sizeof(k_text_options) / sizeof(k_text_options[0])
k_text_options_count == Len(k_text_options)

\* The largest index the text view can pass: its s_index is a uint8_t
\* (text.cpp).
UINT8_MAX == 255

\* Indices a caller passes to text_app_get_text.
Indices == 0..MaxIndex \cup {UINT8_MAX}

\* A lookup whose range check lets index == count through.
TextOption_OffByOne(index) ==
  IF index > k_text_options_count THEN "nullptr"
  ELSE IF index = k_text_options_count THEN ""
  ELSE k_text_options[index + 1]

\* const char* text_app_get_text(size_t index): the string at the 0-based
\* index, or nullptr when index >= k_text_options_count.
TextOption(index) ==
  IF index >= k_text_options_count THEN "nullptr"
  ELSE k_text_options[index + 1]

\* size_t text_app_get_count(void)
text_app_get_count ==
  /\ fgPc = "idle"
  /\ ret' = [api |-> "text_app_get_count",
             value |-> ToString(k_text_options_count)]
  /\ UNCHANGED <<g_currentText, g_partialEnabled, fgPc>>
  /\ QueryFrame

\* const char* text_app_get_text(size_t index), with the index it was
\* called with kept beside the result.
text_app_get_text(index) ==
  /\ fgPc = "idle"
  /\ ret' = [api |-> "text_app_get_text", value |-> TextOption(index),
             index |-> index]
  /\ UNCHANGED <<g_currentText, g_partialEnabled, fgPc>>
  /\ QueryFrame

\* String::toInt() and ArduinoJson's `doc["index"] | -1`, for the index
\* strings of the requests below: the number the text spells, or the
\* fallback (0 for toInt, -1 for the JSON default) when it spells none.
ParseInt(str, fallback) ==
  IF \E i \in -1..MaxIndex : ToString(i) = str
    THEN CHOOSE i \in -1..MaxIndex : ToString(i) = str
    ELSE fallback

\* Requests to POST /apps/text/select: the body is absent (form-encoded
\* arguments are used), JSON, or not parseable; "absent" marks a field
\* that was not sent.
SelectRequest(body, index, text, color) ==
  [body |-> body, index |-> index, text |-> text, color |-> color]

SelectRequests ==
  {SelectRequest("", "4", "absent", "black"),
   SelectRequest("", "5", "absent", "absent"),
   SelectRequest("", "abc", "absent", "absent"),
   SelectRequest("", "absent", "Ciao!", "absent"),
   SelectRequest("", "absent", "", "black"),
   SelectRequest("", "absent", "absent", "absent"),
   SelectRequest("json", "abc", "absent", "absent"),
   SelectRequest("json", "-1", "absent", "absent"),
   SelectRequest("json", ToString(MaxIndex), "absent", "absent"),
   SelectRequest("json", "0", "Ciao!", "absent"),
   SelectRequest("json", "absent", "Ciao!", "red"),
   SelectRequest("json", "absent", "", "absent"),
   SelectRequest("json", "absent", "absent", "black"),
   SelectRequest("garbage", "absent", "absent", "absent")}

\* Lines 91-143 of the handler: the text it settles on, or the 400 it
\* answers with.
Chosen(req) ==
  LET idx == ParseInt(req.index, IF req.body = "" THEN 0 ELSE -1)
      bad(msg) == [code |-> "400", error |-> msg, text |-> ""]
  IN IF req.body = "garbage" THEN bad("invalid json")
     ELSE IF req.index # "absent"
       THEN IF idx < 0 \/ idx >= k_text_options_count
              THEN bad("index out of range")
              ELSE [code |-> "ok", error |-> "", text |-> k_text_options[idx + 1]]
     ELSE IF req.text # "absent"
       THEN IF Len(req.text) = 0
              THEN bad("empty text")
              ELSE [code |-> "ok", error |-> "", text |-> req.text]
     ELSE bad("missing fields")

\* Lines 145-147: color_cstr points into a temporary String (line 112) or
\* into the JSON document that went out of scope (lines 136-137) when the
\* request named a colour, so strcmp(color_cstr, "black") compares freed
\* memory and either colour may result; without the field it is "red".
ColorOutcomes(req) ==
  IF req.color = "absent" THEN {"GxEPD_RED"} ELSE {"GxEPD_RED", "GxEPD_BLACK"}

\* What a handler of the application leaves alone whatever path it takes.
HandlerFrame ==
  UNCHANGED <<s_isBlockedByTask, g_currentText, g_partialEnabled, workerVars,
              inputVars, panelOps, s_u8g2_epd>>

\* A handler path that creates no job.
NothingQueued ==
  /\ queued' = "none"
  /\ UNCHANGED <<s_jobQueue, acceptedLog, freed, nextId, renderJobs>>

\* srv->send(code, "application/json", ...) of the select handler.
SelectAnswer(code, error) ==
  [api |-> "POST /apps/text/select", value |-> code, error |-> error]

\* A select handler that enters the update without looking at the flag.
text_app_select_IgnoresFlag(req) ==
  /\ fgPc = "idle"
  /\ nextId < MaxJobs /\ (renderJobs < MaxRenderJobs \/ nextId < MaxBurst)
  /\ IF Chosen(req).code = "400"
       THEN /\ ret' = SelectAnswer("400", Chosen(req).error)
            /\ UNCHANGED <<fgPc, locals>>
       ELSE /\ fgPc' = "select_queue"
            /\ \E color \in ColorOutcomes(req) :
                 locals' = [locals EXCEPT !.chosen_text = Chosen(req).text,
                                          !.color = color]
            /\ UNCHANGED ret
  /\ NothingQueued
  /\ HandlerFrame
  /\ UNCHANGED <<millis, controls, invoked, ui, nyt>>

\* POST /apps/text/select, from its entry to the first operand of
\* epd_isBusy() (s_isBlockedByTask): a 400 for a request that names no
\* usable text, a 503 when the flag is set, else on to the queue test.
text_app_select(req) ==
  /\ fgPc = "idle"
  /\ nextId < MaxJobs /\ (renderJobs < MaxRenderJobs \/ nextId < MaxBurst)
  /\ IF Chosen(req).code = "400"
       THEN /\ ret' = SelectAnswer("400", Chosen(req).error)
            /\ UNCHANGED <<fgPc, locals>>
       ELSE IF s_isBlockedByTask
         THEN /\ ret' = SelectAnswer("503", "epd busy")
              /\ UNCHANGED <<fgPc, locals>>
         ELSE /\ fgPc' = "select_queue"
              /\ \E color \in ColorOutcomes(req) :
                   locals' = [locals EXCEPT !.chosen_text = Chosen(req).text,
                                            !.color = color]
              /\ UNCHANGED ret
  /\ NothingQueued
  /\ HandlerFrame
  /\ UNCHANGED <<millis, controls, invoked, ui, nyt>>

\* The rest of the handler: the second operand of epd_isBusy()
\* (uxQueueMessagesWaiting > 0), then either the 503 or
\* epd_displayText(chosen_text, color, false) and the 200.
text_app_select_queue ==
  /\ fgPc = "select_queue"
  /\ IF uxQueueMessagesWaiting > 0
       THEN /\ ret' = SelectAnswer("503", "epd busy")
            /\ NothingQueued
       ELSE /\ _queueJob([NewJob("JOB_TEXT", locals.chosen_text, FALSE)
                            EXCEPT !.color = locals.color])
            /\ ret' = SelectAnswer("200", "")
  /\ fgPc' = "idle"
  /\ locals' = NoLocals
  /\ HandlerFrame
  /\ UNCHANGED <<millis, controls, invoked, ui, nyt>>

\* The text app: its lookups and its select handler, beside the worker.
TextAppNext ==
  \/ text_app_get_count
  \/ \E index \in Indices : text_app_get_text(index)
  \/ \E req \in SelectRequests : text_app_select(req)
  \/ text_app_select_queue
  \/ epd_worker_task

TextAppSpec == Init /\ [][TextAppNext]_vars

\* ------------------------------------------------------------- controls
\* static unsigned long s_debounceMs, s_longPressMs (controls.cpp); no
\* caller changes them.
s_debounceMs == 50
s_longPressMs == 1000

\* Milliseconds that pass between two calls of controls_poll(): twice the
\* debounce period, or a long-press period.
Delays == {2 * s_debounceMs, s_longPressMs}

\* A debounce test that passes when exactly the debounce period has
\* elapsed (>= for >).
PollOutcome_DebounceAtLeast(b, reading, now) ==
  LET b1 == IF reading # b.raw
              THEN [b EXCEPT !.lastChange = now, !.raw = reading]
              ELSE b
  IN IF ~((now - b1.lastChange) >= s_debounceMs)
       THEN [btn |-> b1, fire |-> "none"]
     ELSE IF b1.raw # b1.stable
       THEN IF b1.raw # b1.idleState
              THEN [btn |-> [b1 EXCEPT !.stable = b1.raw,
                                       !.pressStart = now,
                                       !.longFired = FALSE],
                    fire |-> "none"]
              ELSE [btn |-> [b1 EXCEPT !.stable = b1.raw,
                                       !.pressStart = 0,
                                       !.longFired = FALSE],
                    fire |-> IF b1.longFired THEN "none" ELSE "short"]
     ELSE IF /\ b1.stable # b1.idleState
             /\ ~b1.longFired
             /\ b1.pressStart # 0
             /\ (now - b1.pressStart) >= s_longPressMs
       THEN [btn |-> [b1 EXCEPT !.longFired = TRUE], fire |-> "long"]
     ELSE [btn |-> b1, fire |-> "none"]

\* A release that runs the short-press handler whether or not the long
\* press had fired.
PollOutcome_ShortAfterLong(b, reading, now) ==
  LET b1 == IF reading # b.raw
              THEN [b EXCEPT !.lastChange = now, !.raw = reading]
              ELSE b
  IN IF ~((now - b1.lastChange) > s_debounceMs)
       THEN [btn |-> b1, fire |-> "none"]
     ELSE IF b1.raw # b1.stable
       THEN IF b1.raw # b1.idleState
              THEN [btn |-> [b1 EXCEPT !.stable = b1.raw,
                                       !.pressStart = now,
                                       !.longFired = FALSE],
                    fire |-> "none"]
              ELSE [btn |-> [b1 EXCEPT !.stable = b1.raw,
                                       !.pressStart = 0,
                                       !.longFired = FALSE],
                    fire |-> "short"]
     ELSE IF /\ b1.stable # b1.idleState
             /\ ~b1.longFired
             /\ b1.pressStart # 0
             /\ (now - b1.pressStart) >= s_longPressMs
       THEN [btn |-> [b1 EXCEPT !.longFired = TRUE], fire |-> "long"]
     ELSE [btn |-> b1, fire |-> "none"]

\* The state machine of _pollButton for one ButtonState b, the level
\* digitalRead() reports and the value of millis(): the ButtonState it
\* leaves and the press it detected ("none", "short" on a release without
\* a long press, "long" once per hold of s_longPressMs or more).
PollOutcome(b, reading, now) ==
  LET b1 == IF reading # b.raw
              THEN [b EXCEPT !.lastChange = now, !.raw = reading]
              ELSE b
  IN IF ~((now - b1.lastChange) > s_debounceMs)
       THEN [btn |-> b1, fire |-> "none"]
     ELSE IF b1.raw # b1.stable
       THEN IF b1.raw # b1.idleState
              THEN [btn |-> [b1 EXCEPT !.stable = b1.raw,
                                       !.pressStart = now,
                                       !.longFired = FALSE],
                    fire |-> "none"]
              ELSE [btn |-> [b1 EXCEPT !.stable = b1.raw,
                                       !.pressStart = 0,
                                       !.longFired = FALSE],
                    fire |-> IF b1.longFired THEN "none" ELSE "short"]
     ELSE IF /\ b1.stable # b1.idleState
             /\ ~b1.longFired
             /\ b1.pressStart # 0
             /\ (now - b1.pressStart) >= s_longPressMs
       THEN [btn |-> [b1 EXCEPT !.longFired = TRUE], fire |-> "long"]
     ELSE [btn |-> b1, fire |-> "none"]

\* The default actions of controls.cpp.
DefaultActions ==
  {"defaultPrevAction", "defaultNextAction", "defaultConfirmAction",
   "defaultLongPressAction"}

DefaultShortAction(button) ==
  CASE button = "prev" -> "defaultPrevAction"
    [] button = "next" -> "defaultNextAction"
    [] button = "confirm" -> "defaultConfirmAction"

\* onShort and onLong as controls_poll passes them for a button.
OnShort(c, button) ==
  CASE button = "prev" -> c.cb.s_prev_cb
    [] button = "next" -> c.cb.s_next_cb
    [] button = "confirm" -> c.cb.s_confirm_cb

OnLong(c, button) ==
  LET own == CASE button = "prev" -> c.cb.s_prev_long_cb
               [] button = "next" -> c.cb.s_next_long_cb
               [] button = "confirm" -> c.cb.s_confirm_long_cb
  IN IF own # "nullptr" THEN own ELSE c.cb.s_longpress_cb

\* A dispatch that falls back to the default actions whatever
\* s_useDefaultActions says.
Handler_DefaultsAlways(c, button, fire) ==
  IF fire = "short"
    THEN IF OnShort(c, button) # "nullptr" THEN OnShort(c, button)
         ELSE DefaultShortAction(button)
    ELSE IF OnLong(c, button) # "nullptr" THEN OnLong(c, button)
         ELSE IF c.cb.s_longpress_cb # "nullptr" THEN c.cb.s_longpress_cb
         ELSE "defaultLongPressAction"

\* The function _pollButton runs for a detected press: the registered
\* callback, else the default action when s_useDefaultActions, else none
\* ("no action registered").
Handler(c, button, fire) ==
  IF fire = "short"
    THEN IF OnShort(c, button) # "nullptr" THEN OnShort(c, button)
         ELSE IF c.s_useDefaultActions THEN DefaultShortAction(button)
         ELSE "none"
    ELSE IF OnLong(c, button) # "nullptr" THEN OnLong(c, button)
         ELSE IF c.cb.s_longpress_cb # "nullptr" THEN c.cb.s_longpress_cb
         ELSE IF c.s_useDefaultActions THEN "defaultLongPressAction"
         ELSE "none"

\* Positions of the foreground inside controls_poll(): before the
\* _pollButton call of each button, in the order of the calls.
PollPc(button) == "poll_" \o button

AfterPoll(button) ==
  CASE button = "prev" -> PollPc("next")
    [] button = "next" -> PollPc("confirm")
    [] button = "confirm" -> "idle"

\* controls_poll() is entered, `delay` milliseconds after the last call.
\* (The guards keep millis() and the number of jobs its default actions
\* may create within the bounds.)
controls_poll(delay) ==
  /\ fgPc = "idle"
  /\ millis + delay <= MaxMillis
  /\ nextId + Cardinality(Buttons) <= MaxJobs
  /\ millis' = millis + delay
  /\ fgPc' = PollPc("prev")
  /\ NothingQueued
  /\ HandlerFrame
  /\ UNCHANGED <<ret, controls, invoked, ui, nyt, locals>>

\* One _pollButton call of controls_poll(), its handler included:
\* defaultPrevAction is epd_clear(), defaultNextAction flips
\* g_partialEnabled, defaultLongPressAction is epd_forceClear_async(),
\* defaultConfirmAction only logs; the registered callbacks belong to the
\* user interface and are recorded here by name. The guard bounds the
\* buttons that have ever been seen to change.
_pollButton(button, reading) ==
  /\ fgPc = PollPc(button)
  /\ reading = "LOW" =>
       Cardinality({b \in Buttons \ {button} :
                      controls.btn[b].lastChange # 0}) < MaxOperated
  /\ LET out == PollOutcome(controls.btn[button], reading, millis)
         h == Handler(controls, button, out.fire)
     IN /\ controls' =
             [controls EXCEPT
                !.btn[button] = out.btn,
                !.pin[button] = IF reading = @.level THEN @
                                ELSE [level |-> reading, since |-> millis]]
        /\ invoked' =
             IF out.fire # "none"
               THEN [invoked EXCEPT ![button] =
                       Append(@, [press |-> out.fire, handler |-> h])]
             ELSE IF /\ out.btn.stable # controls.btn[button].stable
                     /\ out.btn.stable # out.btn.idleState
               THEN [invoked EXCEPT ![button] = <<>>]
             ELSE invoked
        /\ IF out.fire # "none" /\ h = "defaultPrevAction"
             THEN _queueJob(NewJob("JOB_CLEAR", "", FALSE))
           ELSE IF out.fire # "none" /\ h = "defaultLongPressAction"
             THEN _queueJob(NewJob("JOB_FORCE_CLEAR", "", FALSE))
           ELSE NothingQueued
        /\ g_partialEnabled' =
             IF out.fire # "none" /\ h = "defaultNextAction"
               THEN ~g_partialEnabled ELSE g_partialEnabled
  /\ fgPc' = AfterPoll(button)
  /\ UNCHANGED <<s_isBlockedByTask, g_currentText, workerVars, inputVars,
                 panelOps, s_u8g2_epd, ret, millis, ui, nyt, locals>>

\* The buttons as the main loop polls them after setup(): nothing but
\* ui_init() registers callbacks or switches the default actions.
ControlsNext ==
  \/ \E delay \in Delays : controls_poll(delay)
  \/ \E button \in Buttons, reading \in Levels : _pollButton(button, reading)

ControlsSpec == Init /\ [][ControlsNext]_vars

\* A main loop that reaches controls_poll() every half debounce period or
\* every debounce period.
BounceDelays == {s_debounceMs \div 2, s_debounceMs}

controls_poll_soon(delay) ==
  /\ millis + delay <= MaxBounceMillis
  /\ controls_poll(delay)

controls_poll_late ==
  /\ millis <= MaxBounceMillis
  /\ controls_poll(s_longPressMs)

\* The buttons polled at these short intervals, and once after the
\* long-press period.
DebounceNext ==
  \/ \E delay \in BounceDelays : controls_poll_soon(delay)
  \/ controls_poll_late
  \/ \E button \in Buttons, reading \in Levels : _pollButton(button, reading)

DebounceSpec == Init /\ [][DebounceNext]_vars

\* ----------------------------------------------------------- NYT reader
\* int maxComponents = 24 of render_article_with_offset, view_next and
\* view_prev (nytimes.cpp).
maxComponents == 24

\* s_currentArticleComponents as prepare_article_components() leaves it
\* for an item that yields n components: the title as header, then rows.
ArticleComponents(n) ==
  [i \in 1..n |->
     IF i = 1
       THEN EpdComponent("EPD_COMP_HEADER", "Title", "", 0, "GxEPD_BLACK")
       ELSE EpdComponent("EPD_COMP_ROW", "line " \o ToString(i), "", 0,
                         "GxEPD_BLACK")]

\* Component counts of the feed items: one page, and three pages.
ArticleSizes == {maxComponents - 4, 2 * maxComponents + 2}

\* The page render_article_with_offset(startIdx) builds: no title, the
\* components startIdx .. min(total, startIdx + maxComponents) - 1.
ArticlePage(total, startIdx) ==
  EpdPage("", SubSeq(ArticleComponents(total), startIdx + 1,
                     Min(total, startIdx + maxComponents)))

\* A view callback returns: what it was, and the page index it started
\* from.
ViewReturns ==
  /\ fgPc' = "idle"
  /\ ret' = [api |-> locals.call, value |-> "void", from |-> locals.from]
  /\ locals' = NoLocals

\* The first operand of the epd_isBusy() that view_next and view_prev
\* begin with (s_isBlockedByTask): "Wait..." and return when it is set.
ViewEnters(call, onward) ==
  /\ nextId < MaxJobs /\ (renderJobs < MaxRenderJobs \/ nextId < MaxBurst)
  /\ IF s_isBlockedByTask
       THEN /\ fgPc' = "idle"
            /\ ret' = [api |-> call, value |-> "void",
                       from |-> nyt.s_componentIndex]
            /\ UNCHANGED locals
       ELSE /\ fgPc' = onward
            /\ locals' = [locals EXCEPT !.call = call,
                                        !.from = nyt.s_componentIndex]
            /\ UNCHANGED ret
  /\ NothingQueued
  /\ HandlerFrame
  /\ UNCHANGED <<millis, controls, invoked, ui, nyt>>

\* view_next in article mode, up to the first operand of epd_isBusy().
\* (In the list the callbacks move the selection, which is left out.)
view_next ==
  /\ fgPc = "idle"
  /\ nyt.s_viewingArticle
  /\ ViewEnters("view_next", "next_queue")

\* view_next from the second operand of epd_isBusy()
\* (uxQueueMessagesWaiting > 0) to the call of render_article_with_offset:
\* "Wait..." when busy, else s_componentIndex += maxComponents when another
\* page follows, else "End of article".
view_next_queue ==
  /\ fgPc = "next_queue"
  /\ IF uxQueueMessagesWaiting > 0
       THEN ViewReturns /\ UNCHANGED nyt
     ELSE IF nyt.s_componentIndex + maxComponents < nyt.size
       THEN /\ nyt' = [nyt EXCEPT !.s_componentIndex = @ + maxComponents]
            /\ locals' = [locals EXCEPT !.startIdx = nyt'.s_componentIndex]
            /\ fgPc' = "render_flag"
            /\ UNCHANGED ret
     ELSE ViewReturns /\ UNCHANGED nyt
  /\ NothingQueued
  /\ HandlerFrame
  /\ UNCHANGED <<millis, controls, invoked, ui>>

\* view_prev in article mode, up to the first operand of epd_isBusy().
view_prev ==
  /\ fgPc = "idle"
  /\ nyt.s_viewingArticle
  /\ ViewEnters("view_prev", "prev_queue")

\* view_prev from the second operand of epd_isBusy() to the call of
\* render_article_with_offset: s_componentIndex =
\* max(0, s_componentIndex - maxComponents) unless at the start.
view_prev_queue ==
  /\ fgPc = "prev_queue"
  /\ IF uxQueueMessagesWaiting > 0
       THEN ViewReturns /\ UNCHANGED nyt
     ELSE IF nyt.s_componentIndex > 0
       THEN /\ nyt' = [nyt EXCEPT
                         !.s_componentIndex = Max(0, @ - maxComponents)]
            /\ locals' = [locals EXCEPT !.startIdx = nyt'.s_componentIndex]
            /\ fgPc' = "render_flag"
            /\ UNCHANGED ret
     ELSE ViewReturns /\ UNCHANGED nyt
  /\ NothingQueued
  /\ HandlerFrame
  /\ UNCHANGED <<millis, controls, invoked, ui>>

\* view_select: in the list it opens the selected item, whose article has
\* `total` components, and renders its first page; in article mode it
\* renders the current page again. Both go on in
\* render_article_with_offset. (The feed, its s_index and fetch_data() are
\* left out.)
view_select(total) ==
  /\ fgPc = "idle"
  /\ nextId < MaxJobs /\ (renderJobs < MaxRenderJobs \/ nextId < MaxBurst)
  /\ IF nyt.s_viewingArticle
       THEN /\ total = nyt.size
            /\ UNCHANGED nyt
       ELSE nyt' = [s_viewingArticle |-> TRUE, s_componentIndex |-> 0,
                    size |-> total]
  /\ locals' = [locals EXCEPT !.call = "view_select",
                              !.from = nyt'.s_componentIndex,
                              !.startIdx = nyt'.s_componentIndex]
  /\ fgPc' = "render_flag"
  /\ NothingQueued
  /\ HandlerFrame
  /\ UNCHANGED <<ret, millis, controls, invoked, ui>>

\* view_back in article mode: back to the list (ui_redraw() draws the
\* OLED only).
view_back ==
  /\ fgPc = "idle"
  /\ nyt.s_viewingArticle
  /\ nyt' = NytAtRest
  /\ ret' = [api |-> "view_back", value |-> "void",
             from |-> nyt.s_componentIndex]
  /\ NothingQueued
  /\ HandlerFrame
  /\ UNCHANGED <<fgPc, locals, millis, controls, invoked, ui>>

\* render_article_with_offset(startIdx), first operand of its
\* epd_isBusy(): "EPD busy" and return when the flag is set.
render_article_with_offset ==
  /\ fgPc = "render_flag"
  /\ IF s_isBlockedByTask
       THEN ViewReturns
       ELSE fgPc' = "render_queue" /\ UNCHANGED <<ret, locals>>
  /\ NothingQueued
  /\ HandlerFrame
  /\ UNCHANGED <<millis, controls, invoked, ui, nyt>>

\* render_article_with_offset(startIdx) from the second operand of
\* epd_isBusy(): return when a job is waiting, else build the page and
\* epd_displayPage(page).
render_article_with_offset_queue ==
  /\ fgPc = "render_queue"
  /\ IF uxQueueMessagesWaiting > 0
       THEN NothingQueued
       ELSE _queueJob([NewJob("JOB_PAGE", "", FALSE) EXCEPT
                         !.page = ArticlePage(nyt.size, locals.startIdx)])
  /\ ViewReturns
  /\ HandlerFrame
  /\ UNCHANGED <<millis, controls, invoked, ui, nyt>>

\* The reader: the button callbacks of the NYT view, beside the worker.
ReaderNext ==
  \/ \E total \in ArticleSizes : view_select(total)
  \/ view_next
  \/ view_next_queue
  \/ view_prev
  \/ view_prev_queue
  \/ view_back
  \/ render_article_with_offset
  \/ render_article_with_offset_queue
  \/ epd_worker_task

ReaderSpec == Init /\ [][ReaderNext]_vars

\* ------------------------------------------------------------------- ui
\* wifi_isConnected() changes its answer: the station connects or loses
\* the access point.
wifi_event(connected) ==
  /\ fgPc = "idle"
  /\ ui.wifi # connected
  /\ ui' = [ui EXCEPT !.wifi = connected]
  /\ NothingQueued
  /\ HandlerFrame
  /\ UNCHANGED <<fgPc, ret, millis, controls, invoked, nyt, locals>>

\* SNTP, started by configTime(), sets the clock: from then on
\* time(nullptr) > 1600000000.
sntp_sync ==
  /\ fgPc = "idle"
  /\ ui.s_timeConfigured /\ ui.wifi /\ ~ui.clock
  /\ ui' = [ui EXCEPT !.clock = TRUE]
  /\ NothingQueued
  /\ HandlerFrame
  /\ UNCHANGED <<fgPc, ret, millis, controls, invoked, nyt, locals>>

\* void ui_poll(void), lines 243-257: configTime() once WiFi is connected,
\* then, once the clock is valid, epd_displayDate(now) and
\* s_initialDateShown = true. (The carousel animation and the OLED that
\* follow are left out.)
ui_poll ==
  /\ fgPc = "idle"
  /\ LET configured == ui.s_timeConfigured \/ ui.wifi
         show == configured /\ ~ui.s_initialDateShown /\ ui.clock
     IN IF show
          THEN /\ CanCreate("JOB_DATE")
               /\ \E now \in Times :
                    _queueJob([NewJob("JOB_DATE", "", FALSE) EXCEPT
                                 !.time = now])
               /\ ui' = [ui EXCEPT !.s_timeConfigured = configured,
                                   !.s_initialDateShown = TRUE,
                                   !.dateJobs = @ \cup {nextId'}]
          ELSE /\ NothingQueued
               /\ ui' = [ui EXCEPT !.s_timeConfigured = configured]
  /\ ret' = [api |-> "ui_poll", value |-> "void"]
  /\ HandlerFrame
  /\ UNCHANGED <<fgPc, millis, controls, invoked, nyt, locals>>

\* The main loop's ui_poll, WiFi and SNTP, with POST /clear (epd_clear,
\* which does not ask whether the display is busy) as the producer of
\* other jobs, beside the worker.
UiNext ==
  \/ ui_poll
  \/ \E connected \in BOOLEAN : wifi_event(connected)
  \/ sntp_sync
  \/ epd_clear
  \/ epd_worker_task

UiSpec == Init /\ [][UiNext]_vars

\* The enqueue calls of the public API.
Producers ==
  \/ \E txt \in Texts, forceFull \in BOOLEAN : epd_displayText(txt, forceFull)
  \/ \E txt \in Texts : epd_displayHeader(txt)
  \/ epd_displayDate
  \/ epd_displayWallpaper
  \/ epd_clear
  \/ epd_forceClear
  \/ epd_forceClear_async
  \/ \E forceFull \in BOOLEAN : epd_drawImageFromBitplanes(forceFull)
  \/ epd_displayPage

\* The read-only calls the foreground polls.
Queries ==
  \/ epd_isBusy_flag
  \/ epd_isBusy_queue
  \/ epd_getCurrentText

\* The pipeline under every producer: the foreground (loop()) makes one
\* call at a time, the worker task runs beside it.
Next == Producers \/ Queries \/ epd_worker_task

Spec == Init /\ [][Next]_vars

\* The producers of the progress runs: text, clear and force-clear requests
\* and the busy poll (a one-cycle job, a nine-cycle job, a refused or
\* skipped request).
ProgressForeground ==
  \/ \E txt \in Texts : epd_displayText(txt, FALSE)
  \/ epd_clear
  \/ epd_forceClear_async
  \/ epd_isBusy_flag
  \/ epd_isBusy_queue

ProgressNext == ProgressForeground \/ epd_worker_task

\* The progress runs without any assumption on the scheduler.
ProgressSpec == Init /\ [][ProgressNext]_vars

\* The pipeline with the runtime-settings call beside a text, a clear and a
\* force-clear producer and the polls.
SettingsNext ==
  \/ ProgressForeground
  \/ epd_getCurrentText
  \/ \E enabled \in BOOLEAN : epd_setPartialEnabled(enabled)
  \/ epd_worker_task

SettingsSpec == Init /\ [][SettingsNext]_vars

\* The worker is a FreeRTOS task that is always ready when it is not blocked
\* in xQueueReceive, and every refresh cycle ends: each of its steps is
\* taken once it stays possible. Nothing is assumed of the producers.
FairSpec == Init /\ [][ProgressNext]_vars /\ WF_vars(epd_worker_task)

\* ------------------------------------------------------- rendering runs
\* Texts of the rendering runs: one that fits the large font, one that
\* needs the small one, one wider than the panel in either.
RenderTexts ==
  {"", "Hello", "Hello World", "Almost as wide", "A long headline."}

\* Bitmaps a caller of epd_drawImageFromBitplanes may pass: the declared
\* size, the bytes, the format string.
Image(width, height, bytes, format) ==
  [DefaultArgs EXCEPT !.width = width, !.height = height,
                      !.data = Buffer(bytes), !.format = format]

ImageArgs ==
  {Image(8, 2, <<129, 255>>, "bw"),      \* exactly ceil(8/8)*2 bytes
   Image(8, 2, <<129>>, "bw"),           \* one byte short
   Image(9, 1, <<255>>, "bw"),           \* ceil(9/8)*1 = 2 bytes needed
   Image(16, 1, <<>>, "bw"),             \* no bytes at all
   Image(8, 1, <<240, 15>>, "3c"),       \* two disjoint planes
   Image(8, 1, <<255, 129>>, "3c"),      \* two planes sharing set bits
   Image(8, 1, <<255>>, "jpeg")}         \* a format that does not exist

\* n components that repeat the given kinds in turn.
Components(kinds, n) ==
  [i \in 1..n |->
     EpdComponent(kinds[((i - 1) % Len(kinds)) + 1], "Item", "42%", 42,
                  "GxEPD_RED")]

AllKinds ==
  <<"EPD_COMP_HEADER", "EPD_COMP_ROW", "EPD_COMP_PROGRESS",
    "EPD_COMP_SEPARATOR">>

\* Pages of the rendering runs: with and without title; empty, short, and
\* long enough to run past the bottom of the panel.
PageArgs ==
  {[DefaultArgs EXCEPT !.page = EpdPage(title, Components(kinds, n))] :
     title \in {"", "Status"},
     kinds \in {AllKinds, <<"EPD_COMP_ROW">>, <<"EPD_COMP_PROGRESS">>},
     n \in {0, 3, MaxComponents}}

\* A /wallpaper.bin whose header declares more than the file holds.
ShortWallpaperFile ==
  [exists |-> TRUE, width |-> 16, height |-> 2, data |-> Buffer(<<255, 0>>)]

RenderArgs ==
  {DefaultArgs} \cup ImageArgs \cup PageArgs
    \cup {[DefaultArgs EXCEPT !.color = "GxEPD_RED"],
          [DefaultArgs EXCEPT !.time = [mday |-> 31, mon |-> 0]],
          [DefaultArgs EXCEPT !.wallpaper = ShortWallpaperFile]}

\* A device fresh from epd_init() whose producers may pass any of the
\* inputs above, on a panel with or without partial-update support.
RenderInit ==
  /\ Booted
  /\ args \in RenderArgs
  /\ hasPartialUpdate \in BOOLEAN
  /\ s_u8g2_epd = U8g2AfterInit(1)

\* The first request of a run, made through any enqueue call.
FirstRequest ==
  /\ nextId = 0
  /\ \/ \E txt \in RenderTexts, forceFull \in BOOLEAN :
          epd_displayText(txt, forceFull)
     \/ \E txt \in Texts : epd_displayHeader(txt)
     \/ epd_displayDate
     \/ epd_displayWallpaper
     \/ epd_clear
     \/ epd_forceClear
     \/ epd_forceClear_async
     \/ \E forceFull \in BOOLEAN : epd_drawImageFromBitplanes(forceFull)
     \/ epd_displayPage

\* The getters and the setting the foreground may call at any time.
Getters ==
  \/ epd_getPartialEnabled
  \/ epd_hasPartialUpdate
  \/ epd_width
  \/ epd_height
  \/ \E enabled \in BOOLEAN : epd_setPartialEnabled(enabled)

\* One request followed through the pipeline, call by call on the panel,
\* with the foreground polling and changing the setting beside the worker.
RenderNext == FirstRequest \/ Queries \/ Getters \/ epd_worker_task

RenderSpec == RenderInit /\ [][RenderNext]_vars

\* --------------------------------------------------------- upload runs
\* The end of an upload handler (handleImageUpload): the std::vector it
\* passed to epd_drawImageFromBitplanes goes out of scope, and its storage
\* is released or reused for other bytes.
ReleaseBuffer ==
  /\ fgPc = "idle"
  /\ \E bytes \in {<<>>, <<0, 0>>, <<255, 255>>} :
       /\ Buffer(bytes) # args.data
       /\ args' = [args EXCEPT !.data = Buffer(bytes)]
  /\ UNCHANGED <<s_jobQueue, s_isBlockedByTask, g_currentText,
                 g_partialEnabled, workerVars, fgPc, ret, queued, nextId,
                 renderJobs, acceptedLog, freed, hasPartialUpdate, panelOps,
                 s_u8g2_epd, appVars>>

\* Uploads of a well-formed image, each followed at any time by the release
\* of the caller's buffer, with clears in between.
UploadNext ==
  \/ \E forceFull \in BOOLEAN : epd_drawImageFromBitplanes(forceFull)
  \/ ReleaseBuffer
  \/ epd_clear
  \/ epd_worker_task

UploadSpec == Init /\ [][UploadNext]_vars

\* ------------------------------------------------------- sequence runs
\* A page requested after another job of any kind: the pages have a title
\* or none and components of every kind; the font mode the library starts
\* with is either one.
SequenceInit ==
  /\ Booted
  /\ args \in {[DefaultArgs EXCEPT !.page = EpdPage(title, Components(AllKinds, 5))] :
                 title \in {"", "Status"}}
  /\ hasPartialUpdate = TRUE
  /\ s_u8g2_epd \in {U8g2AfterInit(mode) : mode \in FontModes}

SequenceNext ==
  \/ FirstRequest
  \/ nextId = 1 /\ epd_displayPage
  \/ \E enabled \in BOOLEAN : epd_setPartialEnabled(enabled)
  \/ epd_worker_task

SequenceSpec == SequenceInit /\ [][SequenceNext]_vars

\* --------------------------------------------------------- layout runs
\* The whole percentages a usage value of the Beszel page may have.
Percents == 0..100

\* The page update_epaper of the Beszel app builds for a system that is up
\* and has the given CPU, memory and disk usage in whole percent:
\* String(value, 1) + "%" beside each bar, red above the alarm limit.
BeszelPage(cpu, mem, disk) ==
  LET Usage(name, value, limit) ==
        EpdComponent("EPD_COMP_PROGRESS", name, ToString(value) \o ".0%",
                     value,
                     IF value > limit THEN "GxEPD_RED" ELSE "GxEPD_BLACK")
  IN EpdPage("Beszel Hub",
             <<EpdComponent("EPD_COMP_HEADER", "nas", "", 0, "GxEPD_BLACK"),
               EpdComponent("EPD_COMP_ROW", "Status", "up", 0, "GxEPD_BLACK"),
               EpdComponent("EPD_COMP_SEPARATOR", "", "", 0, "GxEPD_BLACK"),
               Usage("CPU", cpu, 80),
               Usage("Memory", mem, 85),
               Usage("Disk", disk, 90),
               EpdComponent("EPD_COMP_SEPARATOR", "", "", 0, "GxEPD_BLACK"),
               EpdComponent("EPD_COMP_ROW", "Network", "0.0 KB/s", 0,
                            "GxEPD_BLACK")>>)

\* The page update_epaper of the list app builds from the active and the
\* completed items: a row without value for each.
ShoppingListPage(active, completed) ==
  LET ItemRows(mark, items) ==
        [i \in 1..Len(items) |->
           EpdComponent("EPD_COMP_ROW", mark \o items[i], "", 0,
                        "GxEPD_BLACK")]
  IN EpdPage("Shopping List",
             IF active = <<>> /\ completed = <<>>
               THEN <<EpdComponent("EPD_COMP_ROW", "List is empty", "", 0,
                                   "GxEPD_BLACK")>>
               ELSE ItemRows("[ ] ", active)
                    \o (IF active # <<>> /\ completed # <<>>
                          THEN <<EpdComponent("EPD_COMP_SEPARATOR", "", "", 0,
                                              "GxEPD_BLACK")>>
                          ELSE <<>>)
                    \o ItemRows("[x] ", completed))

\* Pages of the layout runs: the Beszel page with every percentage in one
\* of its bars, and shopping lists with and without items of either kind.
LayoutArgs ==
  {[DefaultArgs EXCEPT !.page = BeszelPage(cpu, 100 - cpu, (3 * cpu) % 101)] :
     cpu \in Percents}
    \cup {[DefaultArgs EXCEPT !.page = ShoppingListPage(active, completed)] :
            active \in {<<>>, <<"Milk">>, <<"Milk", "Eggs">>},
            completed \in {<<>>, <<"Tea">>}}

LayoutInit ==
  /\ Booted
  /\ args \in LayoutArgs
  /\ hasPartialUpdate \in BOOLEAN
  /\ s_u8g2_epd = U8g2AfterInit(1)

\* The page requests of the layout runs, with the worker beside them.
LayoutNext ==
  \/ epd_displayPage
  \/ epd_isBusy_flag
  \/ epd_worker_task

LayoutSpec == LayoutInit /\ [][LayoutNext]_vars

\* --------------------------------------------------------- HTTP handlers
\* Requests to POST /text: the body is absent (form-encoded arguments are
\* used), JSON, or not parseable; "absent" marks a field that was not sent.
TextRequest(body, text, color, forceFull) ==
  [body |-> body, text |-> text, color |-> color, forceFull |-> forceFull]

TextRequests ==
  {TextRequest("", "Hello", "black", "absent"),
   TextRequest("", "", "absent", "absent"),
   TextRequest("", "absent", "absent", "absent"),
   TextRequest("json", "Hello", "absent", "true"),
   TextRequest("json", "Hello", "black", "absent"),
   TextRequest("json", "", "black", "absent"),
   TextRequest("json", "absent", "absent", "absent"),
   TextRequest("{text:", "absent", "absent", "absent")}

\* What handleSetText takes from a request: the answer 400 for a body that
\* is no JSON (an empty body without a text argument included), else the
\* text, the colour and the forceFull flag it passes to epd_displayText.
TextArguments(req) ==
  IF req.body = "" /\ req.text # "absent"
    THEN [code |-> "200", text |-> req.text,
          color |-> IF req.color = "black" THEN "GxEPD_BLACK" ELSE "GxEPD_RED",
          forceFull |-> FALSE]
  ELSE IF req.body # "json"
    THEN [code |-> "400", text |-> "", color |-> "GxEPD_RED",
          forceFull |-> FALSE]
  ELSE [code |-> "200",
        text |-> IF req.text = "absent" THEN "" ELSE req.text,
        color |-> IF req.color = "black" THEN "GxEPD_BLACK" ELSE "GxEPD_RED",
        forceFull |-> req.forceFull = "true"]

\* server.send(code, "application/json", ...) of a handler: the status or
\* the error of the JSON it sends.
Answer(api, code, status) == [api |-> api, value |-> code, status |-> status]

\* static void handleSetText()
handleSetText(req) ==
  /\ fgPc = "idle"
  /\ nextId < MaxJobs
  /\ IF TextArguments(req).code = "400"
       THEN /\ NothingQueued
            /\ ret' = Answer("POST /text", "400", "invalid json")
       ELSE /\ IF TextArguments(req).text = ""
                 THEN NothingQueued
                 ELSE _queueJob([NewJob("JOB_TEXT", TextArguments(req).text,
                                        TextArguments(req).forceFull)
                                   EXCEPT !.color = TextArguments(req).color])
            /\ ret' = Answer("POST /text", "200", "ok")
  /\ EnqueueFrame

\* static void handleClear()
handleClear ==
  /\ fgPc = "idle"
  /\ nextId < MaxJobs
  /\ _queueJob(NewJob("JOB_CLEAR", "", FALSE))
  /\ ret' = Answer("POST /clear", "200", "cleared")
  /\ EnqueueFrame

\* The web server's text and clear handlers, called from loop() through
\* server.handleClient(), beside the worker.
ServerNext ==
  \/ \E req \in TextRequests : handleSetText(req)
  \/ handleClear
  \/ epd_worker_task

ServerSpec == Init /\ [][ServerNext]_vars

\* ----------------------------------------------------- guarded producers
\* The callers that ask epd_isBusy() and enqueue only on false:
\* update_epaper of the Beszel app, view_select of the text view and
\* render_article_with_offset of the NYT reader.
GuardedProducers ==
  {"update_epaper", "view_select", "render_article_with_offset"}

\* The job a guarded producer creates once epd_isBusy() has returned false:
\* the Beszel page, the chosen text in red, a page of the article.
GuardedJob(producer) ==
  CASE producer = "update_epaper" ->
         [NewJob("JOB_PAGE", "", FALSE) EXCEPT !.page = BeszelPage(42, 50, 91)]
    [] producer = "view_select" ->
         [NewJob("JOB_TEXT", locals.chosen_text, FALSE)
            EXCEPT !.color = "GxEPD_RED"]
    [] producer = "render_article_with_offset" ->
         [NewJob("JOB_PAGE", "", FALSE)
            EXCEPT !.page = ArticlePage(maxComponents - 4, 0)]

\* What a guarded producer reports as it returns.
GuardedReturns(outcome) ==
  /\ fgPc' = "idle"
  /\ ret' = [api |-> locals.call, value |-> outcome]
  /\ locals' = NoLocals

\* A guarded producer is called and evaluates the first operand of its
\* epd_isBusy(): "EPD busy" and return when the flag is set.
GuardedCall(producer, index) ==
  /\ fgPc = "idle"
  /\ nextId < MaxJobs
  /\ IF s_isBlockedByTask
       THEN /\ fgPc' = "idle"
            /\ ret' = [api |-> producer, value |-> "EPD busy"]
            /\ UNCHANGED locals
       ELSE /\ fgPc' = "guard_queue"
            /\ locals' = [locals EXCEPT !.call = producer,
                                        !.chosen_text = TextOption(index)]
            /\ UNCHANGED ret
  /\ NothingQueued
  /\ HandlerFrame
  /\ UNCHANGED <<millis, controls, invoked, ui, nyt>>

\* A guard that looks at the flag only.
GuardedQueueRead_FlagOnly ==
  /\ fgPc = "guard_queue"
  /\ fgPc' = "guard_send" /\ UNCHANGED <<ret, locals>>
  /\ NothingQueued
  /\ HandlerFrame
  /\ UNCHANGED <<millis, controls, invoked, ui, nyt>>

\* The second operand of the producer's epd_isBusy(): "EPD busy" and return
\* when a job is waiting, else go on to build the job.
GuardedQueueRead ==
  /\ fgPc = "guard_queue"
  /\ IF uxQueueMessagesWaiting > 0
       THEN GuardedReturns("EPD busy")
       ELSE fgPc' = "guard_send" /\ UNCHANGED <<ret, locals>>
  /\ NothingQueued
  /\ HandlerFrame
  /\ UNCHANGED <<millis, controls, invoked, ui, nyt>>

\* The producer's enqueue call (epd_displayPage, epd_displayText) after
\* epd_isBusy() has returned false.
GuardedEnqueue ==
  /\ fgPc = "guard_send"
  /\ _queueJob(GuardedJob(locals.call))
  /\ GuardedReturns("void")
  /\ HandlerFrame
  /\ UNCHANGED <<millis, controls, invoked, ui, nyt>>

\* The guarded producers and the clear request of the web server, which
\* asks nothing, all called from loop(), beside the worker.
GuardedNext ==
  \/ \E producer \in GuardedProducers, index \in {0, 1} :
       GuardedCall(producer, index)
  \/ GuardedQueueRead
  \/ GuardedEnqueue
  \/ handleClear
  \/ epd_worker_task

GuardedSpec == Init /\ [][GuardedNext]_vars

\* ----------------------------------------------------- setting changes
\* A device fresh from epd_init(), on a panel with or without
\* partial-update support.
PartialInit ==
  /\ Booted
  /\ args = DefaultArgs
  /\ hasPartialUpdate \in BOOLEAN
  /\ s_u8g2_epd = U8g2AfterInit(1)

\* epd_setPartialEnabled called while a job is outstanding: after its
\* enqueue, before the worker has finished it.
epd_setPartialEnabled_outstanding(enabled) ==
  /\ Outstanding # {}
  /\ epd_setPartialEnabled(enabled)

\* Text and image requests, with the setting changed only while a job is
\* outstanding, beside the worker.
PartialNext ==
  \/ \E txt \in Texts, forceFull \in BOOLEAN : epd_displayText(txt, forceFull)
  \/ \E forceFull \in BOOLEAN : epd_drawImageFromBitplanes(forceFull)
  \/ \E enabled \in BOOLEAN : epd_setPartialEnabled_outstanding(enabled)
  \/ epd_getPartialEnabled
  \/ epd_worker_task

PartialSpec == PartialInit /\ [][PartialNext]_vars

\* ------------------------------------------------------------ properties
Ids(q) == [i \in 1..Len(q) |-> q[i].id]

IsPrefix(a, b) == Len(a) <= Len(b) /\ \A i \in 1..Len(a) : a[i] = b[i]

NoDuplicates(a) == \A i, k \in 1..Len(a) : a[i] = a[k] => i = k

\* C1. Queue bound: however the enqueue calls and the worker's dequeues
\* interleave, the queue never holds more than QueueCapacity (5) jobs.
C1_QueueBound == uxQueueMessagesWaiting <= QueueCapacity

\* C1 witness: the queue is full and a further enqueue has just been refused.
C1_Witness ==
  /\ uxQueueMessagesWaiting = QueueCapacity
  /\ queued = "false"
  /\ nextId > QueueCapacity

\* C2. Drop newest on overflow: an enqueue made while QueueCapacity jobs are
\* pending completes in the same step with _queueJob returning false, the new
\* job is deleted and never accepted, and the queue is left exactly as it was.
C2_DropNewest ==
  [][(nextId' # nextId /\ uxQueueMessagesWaiting = QueueCapacity)
       => /\ queued' = "false"
          /\ s_jobQueue' = s_jobQueue
          /\ acceptedLog' = acceptedLog
          /\ nextId' \in freed'
          /\ fgPc' = "idle"]_vars

\* C2 witness: a job was refused at a full queue, which still holds the five
\* jobs accepted before it, in their order.
C2_Witness ==
  /\ queued = "false"
  /\ nextId \in freed
  /\ nextId \notin Range(acceptedLog)
  /\ Len(s_jobQueue) = QueueCapacity
  /\ \A i \in 1..Len(s_jobQueue) : s_jobQueue[i].id < nextId
  /\ \A i \in 1..(Len(s_jobQueue) - 1) : s_jobQueue[i].id < s_jobQueue[i + 1].id

\* C3. FIFO: the worker starts jobs, and finishes them, in exactly the order
\* in which their enqueue calls succeeded.
C3_Fifo ==
  /\ IsPrefix(startedLog, acceptedLog)
  /\ IsPrefix(finishedLog, startedLog)

\* C3 witness: three jobs have run to completion, with a refused job among
\* the ids created before the last of them.
C3_Witness ==
  /\ Len(finishedLog) >= 3
  /\ \E i \in 1..nextId : i \in freed /\ i \notin Range(acceptedLog)

\* C4. Serialization: at most one job is in execution at any instant, a job
\* is dispatched only after the one before it has finished, and every job's
\* panel refreshes form one uninterrupted block.
C4_Serialized ==
  /\ Cardinality(Range(startedLog) \ Range(finishedLog)) <= 1
  /\ Len(startedLog) <= Len(finishedLog) + 1
  /\ NoDuplicates(panelLog)
  /\ workerPc = "render" => panelLog = <<>> \/ panelLog[Len(panelLog)] \in
                                              Range(finishedLog) \cup {job.id}

\* C4 witness: a force-clear job is in the middle of its refresh cycles while
\* further jobs are waiting in the queue.
C4_Witness ==
  /\ workerPc = "render"
  /\ job.type = "JOB_FORCE_CLEAR"
  /\ step > 1 /\ step < Refreshes(job.type)
  /\ Len(s_jobQueue) >= 2
  /\ Len(finishedLog) >= 1

\* Nothing is pending and the worker is blocked in xQueueReceive.
Idle == s_jobQueue = <<>> /\ workerPc = "wait"

\* C5. Busy while work is outstanding: an epd_isBusy() call that returns
\* while an accepted job has not yet finished returns true. (The last
\* foreground call was epd_isBusy, so no job was accepted since it returned,
\* and a job outstanding now was outstanding when it returned.)
C5_BusyWhileOutstanding ==
  (ret.api = "epd_isBusy" /\ Outstanding # {}) => ret.value = "true"

\* C6. The busy flag is exact: s_isBlockedByTask is true exactly while the
\* worker is executing a job; and once the queue is empty and no job is
\* running, the system stays that way until the next accepted enqueue and
\* every epd_isBusy() that returns meanwhile returns false.
C6_BusyExact ==
  /\ [](s_isBlockedByTask <=> Executing)
  /\ [][(Idle /\ acceptedLog' = acceptedLog)
          => /\ Idle'
             /\ ~s_isBlockedByTask'
             /\ (ret' # ret /\ ret'.api = "epd_isBusy") => ret'.value = "false"]_vars

\* C6 witness: all accepted jobs have finished and a later epd_isBusy()
\* returned false.
C6_Witness ==
  /\ Idle
  /\ Len(finishedLog) >= 2
  /\ Outstanding = {}
  /\ ret = [api |-> "epd_isBusy", value |-> "false"]

\* C7. Exactly once, no coalescing: every accepted job is in exactly one
\* place (waiting in the queue, held by the worker, or finished), no job is
\* dispatched or finished twice, every finished job drove its own panel
\* refresh, and a finished job has been deleted and is referenced neither by
\* the queue nor by the worker.
C7_ExactlyOnce ==
  LET inQueue == Range(Ids(s_jobQueue))
      held == IF job = NoJob THEN {} ELSE {job.id}
      done == Range(finishedLog)
  IN /\ NoDuplicates(Ids(s_jobQueue))
     /\ NoDuplicates(startedLog)
     /\ NoDuplicates(finishedLog)
     /\ Range(acceptedLog) = inQueue \cup held \cup done
     /\ inQueue \cap held = {} /\ inQueue \cap done = {} /\ held \cap done = {}
     /\ done \subseteq Range(startedLog)
     /\ done \subseteq Range(panelLog)
     /\ NoDuplicates(panelLog)
     /\ done \subseteq freed
     /\ (inQueue \cup held) \cap freed = {}

\* C7 witness: two jobs enqueued back to back, the second a text job, have
\* both run, each with its own refresh of the panel.
C7_Witness ==
  /\ acceptedLog = <<1, 2>>
  /\ finishedLog = <<1, 2>>
  /\ panelLog = <<1, 2>>
  /\ g_currentText = "Hello"
  /\ freed = {1, 2}

\* C8. Progress: with the worker scheduled fairly and every refresh cycle
\* terminating, every accepted job is eventually finished (a job once
\* accepted or finished stays so, and from some point on every accepted
\* job is among the finished ones), the worker is always somewhere in its
\* loop, and (the producers of a bounded run having stopped) the system
\* ends up idle with the busy flag clear for good.
C8_Progress ==
  /\ [][IsPrefix(acceptedLog, acceptedLog')
         /\ IsPrefix(finishedLog, finishedLog')]_vars
  /\ [](workerPc \in {"wait", "got", "exec", "render"})
  /\ <>[](/\ Range(acceptedLog) \subseteq Range(finishedLog)
          /\ Idle /\ ~s_isBlockedByTask)

\* C8 witness: jobs were accepted and the worker has drained them all.
C8_Witness ==
  /\ Len(acceptedLog) >= 3
  /\ finishedLog = acceptedLog
  /\ Idle
  /\ ~s_isBlockedByTask

\* C9. No cancellation: in every step, a job waiting in the queue stays in
\* the queue, in its place relative to the others, unless the worker takes
\* it; and the job the worker holds stays the same job, its completed
\* refresh cycles never going back, until it has driven all its cycles and
\* is finished.
C9_NoCancellation ==
  [][/\ \/ IsPrefix(Ids(s_jobQueue), Ids(s_jobQueue'))
        \/ /\ s_jobQueue # <<>>
           /\ job'.id = Head(s_jobQueue).id
           /\ Ids(s_jobQueue') = Tail(Ids(s_jobQueue))
     /\ job # NoJob =>
          \/ job' = job /\ step' >= step
          \/ /\ step = Refreshes(job.type)
             /\ finishedLog' = Append(finishedLog, job.id)
             /\ job' = NoJob]_vars

\* C9 witness: a force-clear job is part-way through its cycles after the
\* foreground enqueued a newer job behind it and changed the partial-update
\* setting.
C9_Witness ==
  /\ workerPc = "render"
  /\ job.type = "JOB_FORCE_CLEAR"
  /\ step >= 1 /\ step < Refreshes(job.type)
  /\ s_jobQueue # <<>>
  /\ Head(s_jobQueue).id > job.id
  /\ g_partialEnabled # ENABLE_PARTIAL_UPDATE
  /\ ret.api = "epd_getCurrentText"

BoolApis == {"epd_forceClear_async", "epd_drawImageFromBitplanes"}

VoidJobTypes == {"JOB_TEXT", "JOB_HEADER", "JOB_DATE", "JOB_CLEAR", "JOB_PAGE"}

ForegroundStep ==
  \/ ret' # ret
  \/ queued' # queued
  \/ nextId' # nextId
  \/ fgPc' # fgPc
  \/ g_partialEnabled' # g_partialEnabled

\* C11. Exclusive panel ownership: after epd_init() every drawing call into
\* the panel driver is made by the worker, between its dispatch of a job and
\* the end of that job and on behalf of that job; no call of the foreground
\* (enqueue calls, epd_isBusy, epd_getCurrentText, epd_width, epd_height,
\* epd_hasPartialUpdate, epd_getPartialEnabled, epd_setPartialEnabled) adds
\* a panel call, whether the worker is executing a job or not.
C11_PanelOwnedByWorker ==
  /\ [](/\ \A i \in 1..Len(panelOps) :
              panelOps[i].by = "worker" /\ panelOps[i].job = job.id
        /\ panelOps # <<>> => workerPc = "render" /\ s_isBlockedByTask)
  /\ [][ForegroundStep => panelOps' = panelOps]_vars

\* C11 witness: the worker is in the middle of a text job, its panel calls
\* made, and the foreground has read the text that job recorded, that is,
\* it made a call while the job was executing.
C11_Witness ==
  /\ workerPc = "render"
  /\ job.type = "JOB_TEXT"
  /\ step = 1
  /\ panelOps # <<>>
  /\ job.text # "Hello API"
  /\ ret = [api |-> "epd_getCurrentText", value |-> job.text]

\* C12. Text jobs record currentText: when the worker executes a Text job
\* carrying T, g_currentText becomes T; no step other than the execution of
\* a Text job changes it (not a clear, image, date, header or page job, not
\* a foreground call); and epd_getCurrentText() returns its value. So after
\* a Text job with T has executed, epd_getCurrentText() returns T until
\* another Text job executes.
C12_TextRecorded ==
  [][/\ (startedLog' # startedLog /\ job.type = "JOB_TEXT")
          => g_currentText' = job.text
     /\ g_currentText' # g_currentText
          => (startedLog' # startedLog /\ job.type = "JOB_TEXT")
     /\ (ret' # ret /\ ret'.api = "epd_getCurrentText")
          => ret'.value = g_currentText]_vars

\* C12 witness: epd_displayText("Hello") was accepted, a job of another
\* type followed it, both have been drained, and epd_getCurrentText() on
\* the idle system returned "Hello".
C12_Witness ==
  /\ s_jobQueue = <<>>
  /\ workerPc = "wait"
  /\ ~s_isBlockedByTask
  /\ Len(finishedLog) >= 2
  /\ g_currentText = "Hello"
  /\ ret = [api |-> "epd_getCurrentText", value |-> "Hello"]

\* Bit k (0 = least significant) of byte b.
Bit(b, k) == (b \div (2 ^ k)) % 2

\* The two bitplanes of a "3c" buffer (black plane first, colour plane
\* second, ceil(width/8)*height bytes each) have a set bit in common.
PlanesOverlap(j) ==
  LET plane == ((j.width + 7) \div 8) * j.height
  IN \E i \in 1..plane :
       /\ plane + i <= Len(j.data.bytes)
       /\ \E k \in 0..7 :
            Bit(j.data.bytes[i], k) = 1 /\ Bit(j.data.bytes[plane + i], k) = 1

\* An image job the worker is said to reject: a "bw" buffer shorter than
\* ceil(width/8)*height bytes, or "3c" planes that overlap.
InvalidImage(j) ==
  /\ j.type = "JOB_IMAGE"
  /\ \/ j.format = "bw" /\ j.data.len < ((j.width + 7) \div 8) * j.height
     \/ j.format = "3c" /\ PlanesOverlap(j)

\* C13 as claimed. Image validation at execution time: while the worker
\* executes an invalid image job it makes no panel call at all (no window
\* is set, nothing is filled, no pixel is drawn, no refresh is started).
C13_InvalidImageRejected ==
  (Executing /\ InvalidImage(job)) => panelOps = <<>>

\* Arguments of epd_drawImageFromBitplanes that do not describe an image:
\* an unknown format, or fewer bytes than the declared size and format need
\* (one plane of ceil(width/8)*height bytes for "bw", two for "3c").
InvalidImageArgs(a) ==
  LET plane == ((a.width + 7) \div 8) * a.height
  IN \/ a.format \notin {"bw", "3c"}
     \/ a.format = "bw" /\ a.data.len < plane
     \/ a.format = "3c" /\ a.data.len < 2 * plane

\* C14 as claimed. epd_drawImageFromBitplanes returns true on success and
\* false on invalid inputs: a call made with a size or format mismatch
\* returns false.
C14_FalseOnInvalidInput ==
  (ret.api = "epd_drawImageFromBitplanes" /\ InvalidImageArgs(args))
    => ret.value = "false"

\* C15 as claimed. epd_forceClear_async schedules a force-clear only if the
\* display is not busy: a call that returned true, and whose job is still in
\* the queue, found no job pending before it (its job is the front of the
\* queue; a job ahead of it was pending, so epd_isBusy() was true, when the
\* call was made).
C15_ScheduledOnlyWhenIdle ==
  (/\ ret.api = "epd_forceClear_async"
   /\ ret.value = "true"
   /\ \E i \in 1..Len(s_jobQueue) : s_jobQueue[i].id = nextId)
    => s_jobQueue[1].id = nextId

\* The drawing calls of a log in order, without who made them.
RECURSIVE CallsOf(_)
CallsOf(log) ==
  IF log = <<>> THEN <<>> ELSE Head(log).calls \o CallsOf(Tail(log))

\* The calls of a sequence whose name is one of names, in order.
Named(calls, names) == SelectSeq(calls, LAMBDA c : c.op \in names)

\* The position of the first call with the given name (0 if there is none).
FirstIndex(calls, name) ==
  IF \E k \in 1..Len(calls) : calls[k].op = name
    THEN CHOOSE k \in 1..Len(calls) :
           /\ calls[k].op = name
           /\ \A m \in 1..(k - 1) : calls[m].op # name
    ELSE 0

\* The bounding box of a text centred on the panel in the font it is drawn
\* with, grown by 4 pixels on every side and cut to the panel:
\* <<left, top, width, height>>.
PaddedClampedBox(text) ==
  LET font == IF Len(text) * FontMetrics("profont29").advance > PanelWidth - 8
                THEN "profont17" ELSE "profont29"
      bw == Len(text) * FontMetrics(font).advance
      bh == FontMetrics(font).ascent - FontMetrics(font).descent
      x0 == CDiv(PanelWidth - bw, 2) - 4
      y0 == CDiv(PanelHeight - bh, 2) - 4
      left == Max(0, x0)
      top == Max(0, y0)
      right == Min(PanelWidth, x0 + bw + 8)
      bottom == Min(PanelHeight, y0 + bh + 8)
  IN <<left, top, right - left, bottom - top>>

\* C16. Partial/full decision for Text jobs: the refresh of a Text job sets
\* exactly one window and fills once before it prints. It uses a partial
\* window (the padded, panel-clamped bounding box of the text, filled with
\* the background colour) exactly when partialUpdateEnabled is true, the
\* panel supports partial updates and the job does not force a full
\* refresh; otherwise it sets the full window and fills the whole frame.
C16_TextWindow ==
  [][(workerPc = "render" /\ job.type = "JOB_TEXT" /\ step' = step + 1) =>
       LET calls == CallsOf(panelOps')
           partial == g_partialEnabled /\ hasPartialUpdate /\ ~job.forceFull
           box == PaddedClampedBox(job.text)
           windows == Named(calls, {"setFullWindow", "setPartialWindow"})
           fills == Named(calls, {"fillScreen", "fillRect"})
       IN /\ Len(windows) = 1
          /\ Len(fills) = 1
          /\ windows[1] =
               IF partial
                 THEN setPartialWindow(box[1], box[2], box[3], box[4])
                 ELSE setFullWindow
          /\ fills[1] =
               IF partial
                 THEN fillRect(box[1], box[2], box[3], box[4], "GxEPD_WHITE")
                 ELSE fillScreen("GxEPD_WHITE")
          /\ FirstIndex(calls, windows[1].op) < FirstIndex(calls, "firstPage")
          /\ FirstIndex(calls, "firstPage") < FirstIndex(calls, fills[1].op)
          /\ FirstIndex(calls, fills[1].op) < FirstIndex(calls, "print")
          /\ FirstIndex(calls, "print") < FirstIndex(calls, "nextPage")]_vars

\* C16 witness: a Text job wider than the panel was drawn through a partial
\* window that starts at the left edge and spans the panel's width (the
\* clamped box), on a panel with partial support and the setting switched
\* on after boot.
C16_Witness ==
  /\ workerPc = "render"
  /\ job.type = "JOB_TEXT"
  /\ step = 1
  /\ ~job.forceFull
  /\ hasPartialUpdate
  /\ \E k \in 1..Len(CallsOf(panelOps)) :
       /\ CallsOf(panelOps)[k].op = "setPartialWindow"
       /\ CallsOf(panelOps)[k].x = 0
       /\ CallsOf(panelOps)[k].w = PanelWidth

\* C17. Page jobs always use a full-frame refresh: whatever the value of
\* partialUpdateEnabled and whether or not the panel supports partial
\* updates, the refresh of a Page job begins by setting the full window,
\* starting the page and filling the whole frame with the background colour,
\* sets no partial window anywhere, and ends with the one nextPage.
C17_PageFullFrame ==
  (workerPc = "render" /\ job.type = "JOB_PAGE" /\ step = 1) =>
    LET calls == CallsOf(panelOps)
    IN /\ Len(calls) >= 4
       /\ calls[1] = setFullWindow
       /\ calls[2] = firstPage
       /\ calls[3] = fillScreen("GxEPD_WHITE")
       /\ calls[Len(calls)] = nextPage
       /\ Named(calls, {"setPartialWindow"}) = <<>>
       /\ Len(Named(calls, {"setFullWindow", "fillScreen", "nextPage"})) = 3

\* C17 witness: a page with a title and at least three components has been
\* composed through the full window on a panel that supports partial
\* updates, with partial updates enabled.
C17_Witness ==
  /\ workerPc = "render"
  /\ job.type = "JOB_PAGE"
  /\ step = 1
  /\ hasPartialUpdate
  /\ g_partialEnabled
  /\ Len(job.page.title) > 0
  /\ 3 \in {CallsOf(panelOps)[k].part : k \in 1..Len(CallsOf(panelOps))}
  /\ CallsOf(panelOps)[1].op = "setFullWindow"

\* The five calls of one cycle of the recovery sequence: a full-frame fill
\* with colour c and the settling delay after it.
FullFrameFill(c, ms) ==
  <<setFullWindow, firstPage, fillScreen(c), nextPage, vTaskDelay(ms)>>

\* C18. ForceClear sequence: a ForceClear job performs 4 cycles of full-frame
\* background fill, settling delay, full-frame foreground fill, settling
\* delay, then one final full-frame background fill, and ends only after
\* that fill, so the panel is entirely background when it completes. All of
\* it is done by the worker with the busy flag set, and every panel call
\* made between the job's first and last fill belongs to that job.
C18_ForceClearSequence ==
  /\ []((workerPc = "render" /\ job.type = "JOB_FORCE_CLEAR") =>
          LET calls == CallsOf(panelOps)
          IN /\ s_isBlockedByTask
             /\ step <= 9
             /\ Len(calls) = 5 * step
             /\ \A k \in 1..step :
                  SubSeq(calls, 5 * k - 4, 5 * k) =
                    FullFrameFill(IF k <= 8 /\ k % 2 = 0
                                    THEN "GxEPD_BLACK" ELSE "GxEPD_WHITE",
                                  IF k <= 8 THEN 400 ELSE 200)
             /\ \A i \in 1..Len(panelOps) :
                  panelOps[i].by = "worker" /\ panelOps[i].job = job.id)
  /\ [][(finishedLog' # finishedLog /\ job.type = "JOB_FORCE_CLEAR") =>
          /\ step = 9
          /\ Named(CallsOf(panelOps), {"fillScreen"})[9]
               = fillScreen("GxEPD_WHITE")
          /\ s_isBlockedByTask]_vars

\* C18 witness: a force-clear has made its ninth fill while a newer job has
\* been waiting in the queue behind it, and the foreground saw busy.
C18_Witness ==
  /\ workerPc = "render"
  /\ job.type = "JOB_FORCE_CLEAR"
  /\ step = 9
  /\ s_jobQueue # <<>>
  /\ Len(startedLog) >= 2
  /\ ret = [api |-> "epd_isBusy", value |-> "true"]

\* What a Text job with the given text, colour and forceFull flag makes of
\* the panel under either outcome of the partial/full decision.
AsTextJob(text, c, forceFull, usedPartial) ==
  _exec_displayText([NoJob EXCEPT !.type = "JOB_TEXT", !.text = text,
                                  !.color = c, !.forceFull = forceFull],
                    usedPartial)

\* C19 as claimed. A Date job is executed as a Text job: once its refresh
\* is made, the panel calls are those of a Text job carrying the formatted
\* date in one fixed colour (same font selection and centring, same
\* partial/full decision), and the date string is the current text.
C19_DateAsText ==
  (workerPc = "render" /\ job.type = "JOB_DATE" /\ step = 1) =>
    /\ g_currentText = FormatDate(job.time)
    /\ \E c \in Colors, usedPartial \in BOOLEAN :
         CallsOf(panelOps) =
           AsTextJob(FormatDate(job.time), c, job.forceFull, usedPartial)

\* C19 as the code has it. A Date job is executed as an Image job without
\* a bitmap: always through the full window, whatever the partial-update
\* setting and capability, the frame is filled with the background colour
\* and the DD.MM string is printed in black in the 17-pixel font on a
\* background box in the bottom-right corner (4 pixels from the right and
\* bottom edges), like the wallpaper's date overlay; the dispatch of a Date
\* job leaves currentText as it was.
C19_DateAsOverlay ==
  /\ []((workerPc = "render" /\ job.type = "JOB_DATE" /\ step = 1) =>
          LET date == FormatDate(job.time)
              tw == Len(date) * FontMetrics("profont17").advance
              th == FontMetrics("profont17").ascent
                      - FontMetrics("profont17").descent
          IN CallsOf(panelOps) =
               <<setFullWindow, firstPage, fillScreen("GxEPD_WHITE"),
                 setFont("profont17"), setForegroundColor("GxEPD_BLACK"),
                 setBackgroundColor("GxEPD_WHITE"),
                 fillRect(PanelWidth - tw - 4 - 2, PanelHeight - 4 - th - 2,
                          tw + 4, th + 4, "GxEPD_WHITE"),
                 setCursor(PanelWidth - tw - 4, PanelHeight - 4),
                 print(date), nextPage>>)
  /\ [][(startedLog' # startedLog /\ job.type = "JOB_DATE")
          => g_currentText' = g_currentText]_vars

\* C19 witness: the date job of 6 November has been drawn with partial
\* updates enabled on a panel that supports them, and the current text is
\* still the one set at boot.
C19_Witness ==
  /\ workerPc = "render"
  /\ job.type = "JOB_DATE"
  /\ step = 1
  /\ g_partialEnabled
  /\ hasPartialUpdate
  /\ g_currentText = "Hello API"
  /\ \E k \in 1..Len(CallsOf(panelOps)) :
       CallsOf(panelOps)[k] = print(DateText)

\* The vertical cursor at which component i of a page would start: the
\* cursor below the title block plus the heights of the components before it.
RECURSIVE CursorAt(_, _)
CursorAt(page, i) ==
  IF i = 1 THEN PageStartY(page.title)
           ELSE CursorAt(page, i - 1) + ComponentAdvance(page.components[i - 1])

\* The components of a page that fit: those before the first one whose
\* cursor leaves less than PageBottomMargin (12) pixels of panel below it.
FittingPrefix(page) ==
  {i \in 1..Len(page.components) :
     \A k \in 1..i : CursorAt(page, k) + PageBottomMargin <= PanelHeight}

\* The components a log of panel calls has drawn.
DrawnParts(calls) == {calls[k].part : k \in 1..Len(calls)} \ {0}

\* C20. Page truncation rule: the components of a page are drawn in list
\* order; drawing stops at the first component whose cursor plus the 12
\* pixels a component needs passes the panel height, and that component and
\* all later ones are not drawn, so the drawn components are a prefix of the
\* list; the refresh is completed all the same (the frame is closed with
\* nextPage after the last drawn component, and nothing else is signalled).
C20_PageTruncation ==
  (workerPc = "render" /\ job.type = "JOB_PAGE" /\ step = 1) =>
    LET calls == CallsOf(panelOps)
        drawn == DrawnParts(calls)
    IN /\ drawn = FittingPrefix(job.page)
       /\ \E n \in 0..Len(job.page.components) : drawn = 1..n
       /\ \A a \in 1..(Len(calls) - 2) :
            calls[a].part > 0
              => /\ calls[a + 1].part >= calls[a].part
                 /\ calls[a + 1].part <= calls[a].part + 1
       /\ calls[Len(calls)] = nextPage

\* C20 witness: a page longer than the panel has been composed; its first
\* components are drawn, its last ones are not.
C20_Witness ==
  /\ workerPc = "render"
  /\ job.type = "JOB_PAGE"
  /\ step = 1
  /\ Len(job.page.components) = MaxComponents
  /\ DrawnParts(CallsOf(panelOps)) # {}
  /\ DrawnParts(CallsOf(panelOps)) # 1..MaxComponents
  /\ CallsOf(panelOps)[Len(CallsOf(panelOps))] = nextPage


\* The page job j with only the first n components of its page.
TruncatedTo(j, n) ==
  [j EXCEPT !.page = EpdPage(j.page.title, SubSeq(j.page.components, 1, n))]

\* C21. Page truncation idempotence: a page whose components exceed the
\* vertical budget is composed into the same panel calls, and so the same
\* frame, as the page with the same title that holds only its visible
\* prefix of components.
C21_TruncationIdempotent ==
  (/\ workerPc = "render" /\ job.type = "JOB_PAGE" /\ step = 1
   /\ Cardinality(FittingPrefix(job.page)) < Len(job.page.components)) =>
    LET calls == CallsOf(panelOps)
        n == Cardinality(FittingPrefix(job.page))
        alone == _exec_displayPage(TruncatedTo(job, n))
    IN /\ calls = alone
       /\ Pixels(calls, 1, Len(calls), panelOps[1].pen)
            = Pixels(alone, 1, Len(alone), panelOps[1].pen)

\* C21 witness: a titled page with more components than fit has been
\* composed, and some but not all of them are on the frame.
C21_Witness ==
  /\ workerPc = "render" /\ job.type = "JOB_PAGE" /\ step = 1
  /\ job.page.title # ""
  /\ Cardinality(FittingPrefix(job.page)) \in 1..(Len(job.page.components) - 1)
  /\ DrawnParts(CallsOf(panelOps)) = FittingPrefix(job.page)


\* C22. Page composition is deterministic: the frame a Page job paints is
\* the one its Page value paints on a freshly initialised device, whatever
\* jobs ran before it, whatever font, colours, font mode and cursor they
\* left in the text helper, and whatever the partial-update setting is.
C22_PageDeterministic ==
  (workerPc = "render" /\ job.type = "JOB_PAGE" /\ step = 1) =>
    LET calls == CallsOf(panelOps)
        fresh == _exec_displayPage([NoJob EXCEPT !.page = job.page])
    IN /\ calls = fresh
       /\ \A mode \in FontModes :
            Pixels(calls, 1, Len(calls), panelOps[1].pen)
              = Pixels(fresh, 1, Len(fresh), U8g2AfterInit(mode))

\* C22 witness: a titled page has been composed as the second job of a run,
\* after a job that left the text helper with a white foreground and the
\* small font, with partial updates switched on.
C22_Witness ==
  /\ workerPc = "render" /\ job.type = "JOB_PAGE" /\ step = 1
  /\ job.id = 2
  /\ job.page.title # ""
  /\ panelOps[1].pen.fg = "GxEPD_WHITE"
  /\ panelOps[1].pen.font = "profont17"
  /\ g_partialEnabled


\* The bitmap call of an image job's refresh, as _exec_image_bw makes it
\* for the bytes given.
BitmapCall(j, bytes) ==
  Op("drawPixel", CDiv(PanelWidth - j.width, 2), CDiv(PanelHeight - j.height, 2),
     j.width, j.height, "GxEPD_BLACK", "image:" \o ByteString(bytes))

\* C23. Image data is deep-copied at enqueue time: a change or release of
\* the producer's buffer changes no queued or running job and nothing of
\* what such a job draws, and an image enqueued with all of its bytes is
\* drawn from those bytes even when the producer's buffer holds others, or
\* none, by then.
C23_DeepCopy ==
  /\ [][args'.data # args.data =>
          /\ s_jobQueue' = s_jobQueue
          /\ job' = job
          /\ \A k \in 1..Len(s_jobQueue) :
               (_exec_drawImage(s_jobQueue[k], FALSE, 0))'
                 = _exec_drawImage(s_jobQueue[k], FALSE, 0)]_vars
  /\ []((/\ workerPc = "render" /\ job.type = "JOB_IMAGE" /\ step = 1
          /\ job.data.len >= BytesRead(job.width, job.height)) =>
          Named(CallsOf(panelOps), {"drawPixel"})
            = <<BitmapCall(job, job.data.bytes)>>)

\* C23 witness: an uploaded image has been drawn from its own bytes after
\* the producer's buffer was released.
C23_Witness ==
  /\ workerPc = "render" /\ job.type = "JOB_IMAGE" /\ step = 1
  /\ job.data = Buffer(<<129, 255>>)
  /\ args.data = Buffer(<<>>)
  /\ Named(CallsOf(panelOps), {"drawPixel"})
       = <<BitmapCall(job, <<129, 255>>)>>


\* C24. epd_displayText with an empty text is a no-op: the call creates and
\* enqueues no job, leaves the pending count, the busy flag and currentText
\* as they were, and changes nothing of the worker or of the panel calls; it
\* only returns.
C24_EmptyTextNoOp ==
  [][(\E forceFull \in BOOLEAN : epd_displayText("", forceFull)) =>
       /\ UNCHANGED <<s_jobQueue, s_isBlockedByTask, g_currentText,
                      g_partialEnabled, workerVars, nextId, renderJobs,
                      acceptedLog, freed, panelOps, s_u8g2_epd>>
       /\ queued' = "none"]_vars

\* C24 witness: epd_displayText("") has just returned while the worker was
\* executing one job and another was pending; no job was created for it.
C24_Witness ==
  /\ ret = [api |-> "void", value |-> "void"]
  /\ queued = "none"
  /\ Executing
  /\ uxQueueMessagesWaiting = 1
  /\ nextId = 2


\* C25. Text App option lookup: the count is greater than 0; for every
\* index below the count text_app_get_text returns a string (never nullptr;
\* a non-empty one for index 0), and for every index from the count on,
\* index == count included, it returns nullptr.
C25_OptionLookup ==
  /\ k_text_options_count > 0
  /\ ret.api = "text_app_get_count" =>
       ret.value = ToString(k_text_options_count)
  /\ ret.api = "text_app_get_text" =>
       /\ ret.index < k_text_options_count => ret.value # "nullptr"
       /\ ret.index = 0 => Len(ret.value) > 0
       /\ ret.index >= k_text_options_count => ret.value = "nullptr"

\* C25 witness: text_app_get_text was called with index == count, the
\* first index out of range, and returned nullptr.
C25_Witness ==
  /\ ret.api = "text_app_get_text"
  /\ ret.index = k_text_options_count
  /\ ret.value = "nullptr"


\* C28. POST /apps/text/select: when epd_isBusy() is true as the handler
\* checks it (the flag is set, or the flag is clear and a job is waiting),
\* the answer is 503 "epd busy" and nothing is enqueued; an index out of
\* range, missing fields, an empty text or an unreadable body are answered
\* with 400 and enqueue nothing; a job is created only by the step that
\* answers 200, and it is a Text job with the chosen text.
C28_SelectGuarded ==
  [][/\ \A req \in SelectRequests :
          text_app_select(req) =>
            /\ NothingQueued
            /\ Chosen(req).code = "400" =>
                 ret' = SelectAnswer("400", Chosen(req).error)
            /\ (Chosen(req).code = "ok" /\ s_isBlockedByTask) =>
                 ret' = SelectAnswer("503", "epd busy")
     /\ text_app_select_queue =>
          /\ uxQueueMessagesWaiting > 0 =>
               ret' = SelectAnswer("503", "epd busy") /\ NothingQueued
          /\ nextId' # nextId =>
               /\ ret' = SelectAnswer("200", "")
               /\ s_jobQueue' = Append(s_jobQueue, s_jobQueue'[Len(s_jobQueue')])
               /\ s_jobQueue'[Len(s_jobQueue')].type = "JOB_TEXT"
               /\ s_jobQueue'[Len(s_jobQueue')].text = locals.chosen_text
               /\ locals.chosen_text # ""]_vars

\* C28 witness: a well-formed request has been answered with 503 while the
\* worker was executing a job, and no job was created for it.
C28_Witness ==
  /\ ret = SelectAnswer("503", "epd busy")
  /\ queued = "none"
  /\ fgPc = "idle"
  /\ Executing
  /\ nextId = 1


\* C26. With the default actions disabled, as ui_init() leaves them, a
\* short or long press of any button runs a registered callback or nothing:
\* never a default action (epd_clear, the partial-update toggle, the force
\* clear), so polling the buttons by itself creates no job and changes no
\* display setting.
C26_OnlyRegisteredCallbacks ==
  /\ [](~controls.s_useDefaultActions =>
          \A b \in Buttons : \A i \in DOMAIN invoked[b] :
            /\ invoked[b][i].handler \notin DefaultActions
            /\ invoked[b][i].handler \in
                 {"none", OnShort(controls, b), OnLong(controls, b)})
  /\ [][(~controls.s_useDefaultActions /\ fgPc # "idle") =>
          UNCHANGED <<s_jobQueue, nextId, acceptedLog, g_partialEnabled>>]_vars

\* C26 witness: Prev, which has no long-press callback, was held for a long
\* press with the defaults disabled: nothing ran and the queue is empty.
C26_Witness ==
  /\ ~controls.s_useDefaultActions
  /\ invoked["prev"] = <<[press |-> "long", handler |-> "none"]>>
  /\ controls.btn["prev"].longFired
  /\ s_jobQueue = <<>>
  /\ nextId = 0


\* C30. Per debounced press of a button at most one press is reported: the
\* long press once, and only when the button has been held for
\* s_longPressMs or more; the short press on the release if and only if
\* the long press had not fired; never both, never the same one twice.
C30_ShortLongExclusive ==
  /\ [](\A b \in Buttons : Len(invoked[b]) <= 1)
  /\ [][\A b \in Buttons :
          fgPc = PollPc(b) =>
            LET old == controls.btn[b]
                new == controls'.btn[b]
                short == [press |-> "short",
                          handler |-> Handler(controls, b, "short")]
                long == [press |-> "long",
                         handler |-> Handler(controls, b, "long")]
            IN /\ (old.stable # old.idleState /\ new.stable = new.idleState) =>
                    IF old.longFired
                      THEN invoked'[b] = invoked[b]
                      ELSE invoked'[b] = Append(invoked[b], short)
               /\ (old.stable = new.stable) =>
                    \/ invoked'[b] = invoked[b]
                    \/ /\ invoked'[b] = Append(invoked[b], long)
                       /\ old.stable # old.idleState
                       /\ ~old.longFired /\ new.longFired
                       /\ millis - old.pressStart >= s_longPressMs]_vars

\* C30 witness: Confirm was held for a long press, which ran ui_back, and
\* has been released: the release reported no short press.
C30_Witness ==
  /\ invoked["confirm"] = <<[press |-> "long", handler |-> "ui_back"]>>
  /\ controls.btn["confirm"].stable = "HIGH"
  /\ ~controls.btn["confirm"].longFired
  /\ fgPc = "idle"


\* C27. No state drift in the NYT reader: when a call of view_next or
\* view_prev in article mode has changed s_componentIndex, it has also
\* enqueued the Page job for the new index, whatever the worker did in the
\* meantime.
C27_NoStateDrift ==
  (/\ fgPc = "idle"
   /\ ret.api \in {"view_next", "view_prev"}
   /\ nyt.s_viewingArticle
   /\ nyt.s_componentIndex # ret.from) => queued = "true"


\* C29. The initial date is shown once: ui_poll creates at most one Date
\* job after ui_init, and once it has marked the date as shown
\* (s_initialDateShown) that job has been accepted by the queue, so that
\* the worker executes it - whatever the queue held when the clock became
\* valid.
C29_InitialDateOnce ==
  /\ Cardinality(ui.dateJobs) <= 1
  /\ ui.s_initialDateShown =>
       \E id \in ui.dateJobs : id \in Range(acceptedLog)


\* C31. Software debounce: at a poll where the level read has not been the
\* same for more than s_debounceMs, the button's stable state does not
\* change and no press is reported; the stable state only ever changes to
\* the level read, and only when every poll for more than s_debounceMs has
\* read that level; a press is reported only with such a change or for a
\* button whose stable state is pressed.
C31_Debounce ==
  [][\A b \in Buttons :
       fgPc = PollPc(b) =>
         LET old == controls.btn[b]
             new == controls'.btn[b]
             pin == controls'.pin[b]
             reported == invoked'[b] # invoked[b] /\ invoked'[b] # <<>>
         IN /\ (millis - pin.since <= s_debounceMs) =>
                 (new.stable = old.stable /\ ~reported)
            /\ (new.stable # old.stable) =>
                 /\ new.stable = pin.level
                 /\ pin = controls.pin[b]
                 /\ millis - pin.since > s_debounceMs
            /\ reported =>
                 (new.stable # old.stable \/ old.stable # old.idleState)]_vars

\* C31 witness: Prev read LOW at one poll and HIGH again at the next, half
\* a debounce period later: the stable state stayed HIGH and nothing was
\* reported.
C31_Witness ==
  /\ fgPc = PollPc("next")
  /\ controls.pin["prev"] = [level |-> "HIGH", since |-> millis]
  /\ controls.btn["prev"].lastChange = millis
  /\ millis = s_debounceMs
  /\ controls.btn["prev"].stable = "HIGH"
  /\ invoked["prev"] = <<>>


\* The calls of a sequence that draw component i of the page.
CallsOfPart(calls, i) == SelectSeq(calls, LAMBDA c : c.part = i)

\* C32. Progress bar fill: for every Progress component with a percentage
\* in 0..100 that a Page job has drawn, the filled width is that percentage
\* of the bar's inner width (the width of the bordered bar less the two
\* pixels of inset at either end) in whole pixels; nothing is filled at 0
\* percent (no fill is drawn); the fill is the inner width at 100 percent;
\* the fill never exceeds the inner width and lies inside the border.
C32_ProgressFill ==
  (workerPc = "render" /\ job.type = "JOB_PAGE" /\ step = 1) =>
    LET calls == CallsOf(panelOps)
    IN \A i \in DrawnParts(calls) :
         LET comp == job.page.components[i]
             bars == Named(CallsOfPart(calls, i), {"drawRect"})
             fills == Named(CallsOfPart(calls, i), {"fillRect"})
             inner == bars[1].w - 4
             fillW == IF fills = <<>> THEN 0 ELSE fills[1].w
         IN (comp.type = "EPD_COMP_PROGRESS" /\ comp.value \in 0..100) =>
              /\ Len(bars) = 1
              /\ Len(fills) <= 1
              /\ 100 * fillW <= inner * comp.value
              /\ inner * comp.value < 100 * (fillW + 1)
              /\ comp.value = 0 => fills = <<>>
              /\ comp.value = 100 => fillW = inner
              /\ fillW <= inner
              /\ fills # <<>> =>
                   /\ fills[1].x = bars[1].x + 2
                   /\ fills[1].x + fillW <= bars[1].x + bars[1].w - 2

\* C32 witness: the Beszel page has been drawn with one bar at 100 percent,
\* filled over the whole inner width, and one at 0 percent, not filled.
C32_Witness ==
  /\ workerPc = "render" /\ job.type = "JOB_PAGE" /\ step = 1
  /\ job.page.components[4].value = 100
  /\ job.page.components[5].value = 0
  /\ LET calls == CallsOf(panelOps)
     IN /\ Named(CallsOfPart(calls, 4), {"fillRect"})[1].w
             = Named(CallsOfPart(calls, 4), {"drawRect"})[1].w - 4
        /\ Named(CallsOfPart(calls, 5), {"fillRect"}) = <<>>
        /\ Named(CallsOfPart(calls, 5), {"drawRect"}) # <<>>


\* The cursor (currY) at which the calls that draw a component of the given
\* type place it: the baseline of its first text less the ascent of its
\* font, or the line of a separator less one.
TopOf(type, calls) ==
  CASE type \in {"EPD_COMP_HEADER", "EPD_COMP_ROW"} ->
         Named(calls, {"setCursor"})[1].y - FontMetrics("profont15").ascent
    [] type = "EPD_COMP_PROGRESS" ->
         Named(calls, {"setCursor"})[1].y - FontMetrics("profont12").ascent
    [] type = "EPD_COMP_SEPARATOR" ->
         Named(calls, {"drawFastHLine"})[1].y - 1

\* C33. A Row component whose value text is empty draws only its label, at
\* the left margin: of the calls a Page job makes for such a row exactly
\* one places the cursor (at x = 2) and exactly one prints (the label), and
\* the rest only set the font, its mode and the colour; and the component
\* drawn after a row, with or without value, starts 12 pixels below it.
C33_RowWithoutValue ==
  (workerPc = "render" /\ job.type = "JOB_PAGE" /\ step = 1) =>
    LET calls == CallsOf(panelOps)
        comps == job.page.components
    IN \A i \in DrawnParts(calls) :
         LET mine == CallsOfPart(calls, i)
         IN comps[i].type = "EPD_COMP_ROW" =>
              /\ comps[i].text2 = "" =>
                   /\ Len(Named(mine, {"setCursor"})) = 1
                   /\ Named(mine, {"setCursor"})[1].x = 2
                   /\ Len(Named(mine, {"print"})) = 1
                   /\ Named(mine, {"print"})[1].s = comps[i].text1
                   /\ \A k \in 1..Len(mine) :
                        mine[k].op \in {"setFontMode", "setFont",
                                        "setForegroundColor", "setCursor",
                                        "print"}
              /\ (i + 1) \in DrawnParts(calls) =>
                   TopOf(comps[i + 1].type, CallsOfPart(calls, i + 1))
                     = TopOf("EPD_COMP_ROW", mine) + 12

\* C33 witness: a shopping list of two active items and a completed one has
\* been drawn; the row of the first item has no value, and the row of the
\* second starts 12 pixels below it.
C33_Witness ==
  /\ workerPc = "render" /\ job.type = "JOB_PAGE" /\ step = 1
  /\ job.page.title = "Shopping List"
  /\ Len(job.page.components) = 4
  /\ job.page.components[1].text2 = ""
  /\ LET calls == CallsOf(panelOps)
     IN /\ DrawnParts(calls) = 1..4
        /\ Named(CallsOfPart(calls, 1), {"print"}) # <<>>
        /\ TopOf("EPD_COMP_ROW", CallsOfPart(calls, 2))
             = TopOf("EPD_COMP_ROW", CallsOfPart(calls, 1)) + 12


\* C34 as claimed. HTTP acknowledgements match queue acceptance: whenever
\* POST /text has answered with status ok or POST /clear with status
\* cleared, the queue has accepted the Text or Clear job of that request;
\* no request is acknowledged whose job was discarded or never created.
C34_AckMeansAccepted ==
  (ret.api \in {"POST /text", "POST /clear"} /\ ret.value = "200") =>
    queued = "true"


\* C35. Guarded producers never lose a job: with every producer called from
\* the one foreground context, the enqueue a producer makes right after its
\* epd_isBusy() returned false is accepted by the queue, whatever the
\* worker did in between: the job is added to the queue and not freed.
C35_GuardedEnqueueAccepted ==
  [][(fgPc = "guard_send" /\ fgPc' = "idle") =>
       /\ uxQueueMessagesWaiting = 0
       /\ queued' = "true"
       /\ freed' = freed
       /\ Len(s_jobQueue') = 1
       /\ s_jobQueue'[1].id = nextId']_vars

\* C35 witness: a guarded producer has just enqueued its job while the
\* worker was executing a job it had taken after the producer's call began.
C35_Witness ==
  /\ fgPc = "idle"
  /\ ret.api \in GuardedProducers
  /\ ret.value = "void"
  /\ queued = "true"
  /\ s_isBlockedByTask
  /\ workerPc = "render"
  /\ Len(s_jobQueue) = 1


\* C36. The partial-versus-full decision of a Text or Image job uses the
\* value partialUpdateEnabled has when the worker executes the job: the
\* refresh sets exactly one window, the partial one exactly when the
\* setting is on at that step (and the panel supports partial updates and
\* the job does not force a full refresh), whatever the setting was when
\* the job was enqueued.
C36_SettingReadAtExecution ==
  [][(/\ workerPc = "render"
      /\ job.type \in {"JOB_TEXT", "JOB_IMAGE"}
      /\ step' = step + 1) =>
       LET windows == Named(CallsOf(panelOps'),
                            {"setFullWindow", "setPartialWindow"})
       IN /\ Len(windows) = 1
          /\ (windows[1].op = "setPartialWindow")
               = (g_partialEnabled /\ hasPartialUpdate /\ ~job.forceFull)]_vars

\* C36 witness: the first request of a run, an image, was enqueued with the
\* setting off (as it is after boot; it is changed only once a job is
\* outstanding) and has been drawn through a partial window: the setting
\* was switched on between its enqueue and its execution.
C36_Witness ==
  /\ ~ENABLE_PARTIAL_UPDATE
  /\ workerPc = "render"
  /\ step = 1
  /\ job.type = "JOB_IMAGE"
  /\ job.id = 1
  /\ nextId = 1
  /\ g_partialEnabled
  /\ Named(CallsOf(panelOps), {"setFullWindow", "setPartialWindow"})
       = <<setPartialWindow(CDiv(PanelWidth - job.width, 2),
                            CDiv(PanelHeight - job.height, 2),
                            job.width, job.height)>>

====
